---- MODULE Spec2Model ----
(***************************************************************************)
(* A model of nzb-streamer: scheduler, stream, NNTP, archive and HTTP.      *)
(*                                                                         *)
(*   SpecJob     scheduler/job_processor.rs: process_job writing the       *)
(*               segments of one volume into the shared memory map         *)
(*   SpecStream  stream/orchestrator.rs and stream/virtual_file_streamer.rs*)
(*               file completion and layout rebuild                        *)
(*   SpecBatch   scheduler/batch.rs and queue.rs: the batch iterator       *)
(*   SpecSched   scheduler/adaptive.rs and writer.rs: process_batches, the *)
(*               workers and the ordered file writers                      *)
(*   SpecVfs     stream/virtual_file_streamer.rs: range reads              *)
(*   SpecHealth  stream/orchestrator.rs: playback and buffer health        *)
(*   SpecOneJob  SpecJob narrowed to one call of process_job               *)
(*   SpecBuffering  stream/orchestrator.rs: volumes completing, the player *)
(*               at the start of the stream                                *)
(*   SpecNntp    nntp/client.rs and pool.rs: downloads with retry, the     *)
(*               connection pool and its warm-up                           *)
(*   SpecDownloadFair  SpecNntp narrowed to the downloads, with the        *)
(*               fairness of the task runtime                              *)
(*   SpecTasks   archive/par2.rs and par2/manifest.rs: the download tasks  *)
(*               of the RAR volumes, in volume order                       *)
(*   SpecScan    archive/mod.rs and packet.rs: the scan of a PAR2 buffer   *)
(*   SpecScanFair  SpecScan with the scan loop running to its end          *)
(*   SpecRar     archive/rar.rs: the headers of the first bytes of a volume*)
(*   SpecHttp    main.rs, session/mod.rs, streaming.rs, http/range.rs: the *)
(*               sessions and the answer to one stream request             *)
(*   SpecYenc    nntp/yenc.rs and simple.rs: the yEnc layer of an article  *)
(*   SpecWriter  scheduler/writer.rs: one ordered file writer and the      *)
(*               messages of its channel                                   *)
(*   SpecTracker stream/segment_tracker.rs: segments registered and marked *)
(*   SpecDlq     session/mod.rs: the download queue of a session           *)
(*   SpecRace    stream/orchestrator.rs: overlapping mark_file_complete    *)
(*                                                                         *)
(* Each specification drives its own group of variables and leaves the     *)
(* other groups at their idle values.                                      *)
(***************************************************************************)
EXTENDS Integers, Sequences, FiniteSets, TLC

VARIABLES
    \* ---- scheduler/job_processor.rs --------------------------------------
    payload_length,       \* payload_length[k]: DownloadTask.length of volume k
    segment_parallelism,  \* process_job's segment_parallelism argument
    downloads,            \* downloads[k][s]: the buffered download of segment s
    write_offset,         \* process_job's local write_offset, per job
    mmap,                 \* the memory map: mmap[b] = <<job, seg, i>> or <<>>
    job_result,           \* "running", or what process_job returned
    job_log,              \* history: what the while loop did, in order
    overtaken,            \* history: a download finished before an earlier one
    \* ---- stream/orchestrator.rs, stream/virtual_file_streamer.rs ----------
    total_files,          \* StreamOrchestrator.total_files
    volumes,              \* on disk: where the payload of each RAR volume lies
    files,                \* StreamOrchestrator.files, by FileState.index
    layout,               \* StreamOrchestrator.layout
    complete_files,       \* StreamOrchestrator.complete_files
    available_bytes,      \* StreamOrchestrator.available_bytes
    playback_position,    \* StreamOrchestrator.playback_position
    playback_byte,        \* history: the byte position of the last get_stream
    segments,             \* VirtualFileStreamer.segments
    stream_out,           \* the last stream read_range_with_chunk_size produced
    overflow_checks,      \* the build: are arithmetic overflows checked?
    \* ---- scheduler/batch.rs, scheduler/queue.rs ---------------------------
    gen_files,            \* BatchGenerator.files: the FileQueue of every file
    wave_size,            \* BatchGenerator.wave_size
    last_batch,           \* what the last BatchIterator::next returned
    yielded,              \* history: every job yielded so far, in order
    \* ---- scheduler/adaptive.rs, scheduler/writer.rs -----------------------
    max_workers,          \* AdaptiveScheduler.max_workers
    sched_pc,             \* where process_batches is
    to_send,              \* the jobs of the current batch not yet sent
    chan,                 \* the job channel between process_batches and workers
    tx_open,              \* the channel's sender is not dropped yet
    bp_limit,             \* the channel length the backpressure loop waits for
    workers,              \* workers[w]: where worker w is, and its job
    file_segments,        \* file_segments[path] = (total, completed)
    notified,             \* the paths passed to mark_file_complete
    writers_open,         \* FileWriterPool.writers still holds the senders
    writer,               \* writer[path]: the ordered_file_writer task of a file
    download_ok,          \* history: the (path, index) downloaded successfully
    unfinished_at_next,   \* history: jobs unfinished at the last next()
    \* ---- nntp/client.rs, nntp/pool.rs -------------------------------------
    max_connections,      \* NntpConfig.max_connections, the pool's max_size
    open_conns,           \* the connections the pool has created
    slots,                \* the pool's idle connections, oldest first
    waiters,              \* the tasks waiting for a permit, in arrival order
    task_pc,              \* task_pc[t]: where download or warm-up task t is
    task_conn,            \* task_conn[t]: the connection t holds, 0 for none
    elapsed,              \* elapsed[t]: time since download was called
    last_error,           \* last_error[t]: the error of t's last attempt
    auth_retried,         \* history: an attempt followed an authentication error
    \* ---- archive/par2.rs ---------------------------------------------------
    hash_to_real,         \* the manifest's inverse: hash16k -> real file name
    first_segments,       \* the first segments downloaded, by their hash16k
    tasks_result,         \* what create_download_tasks returned
    \* ---- archive/mod.rs, archive/packet.rs --------------------------------
    par2_buffer,          \* the buffer parse_buffer is called with, in cells
    scan_cursor,          \* scan_for_packets' cursor, counted from 1
    packets,              \* the packets scanned so far, each with its place
    par2_result,          \* what parse_buffer returned
    \* ---- archive/rar.rs ----------------------------------------------------
    rar_shape,            \* history: the volume the buffer was cut from
    rar_buffer,           \* the buffer analyse_rar_buffer is called with, in cells
    is_first,             \* analyse_rar_buffer's is_first argument
    rar_result,           \* what analyse_rar_buffer returned
    \* ---- main.rs, session/mod.rs, streaming.rs ------------------------------
    sessions,             \* SessionManager.sessions: session id -> Session
    http_request,         \* the last request: session id and Range header
    http_response,        \* the answer to it
    yenc_bytes,           \* nntp/yenc.rs: the byte string that is posted
    yenc_article,         \* the body of the article that carries it
    yenc_result,          \* what the decoder returned for the body
    \* ---- stream/segment_tracker.rs ------------------------------------------
    tracker,              \* the SegmentTracker: the map's keys and the counters
    marked,               \* history: the indexes passed to mark_segment_complete
    \* ---- session/mod.rs ----------------------------------------------------
    download_queue,       \* Session.download_queue, front first
    next_task,            \* what the last get_next_download_task returned
    \* ---- stream/orchestrator.rs: concurrent calls ---------------------------
    mark_calls            \* mark_calls[f]: where the call for file f is

jobVars == <<payload_length, segment_parallelism, downloads, write_offset,
             mmap, job_result, job_log, overtaken>>

streamVars == <<total_files, volumes, files, layout, complete_files,
                available_bytes, playback_position, playback_byte, segments,
                stream_out, overflow_checks>>

batchVars == <<gen_files, wave_size, last_batch, yielded>>

schedVars == <<max_workers, sched_pc, to_send, chan, tx_open, bp_limit, workers,
               file_segments, notified, writers_open, writer, download_ok,
               unfinished_at_next>>

nntpVars == <<max_connections, open_conns, slots, waiters, task_pc, task_conn,
              elapsed, last_error, auth_retried>>

taskVars == <<hash_to_real, first_segments, tasks_result>>

scanVars == <<par2_buffer, scan_cursor, packets, par2_result>>

rarVars == <<rar_shape, rar_buffer, is_first, rar_result>>

httpVars == <<sessions, http_request, http_response>>

yencVars == <<yenc_bytes, yenc_article, yenc_result>>

trackerVars == <<tracker, marked>>

dlqVars == <<download_queue, next_task>>

callVars == <<mark_calls>>

\* The layers in front of the scheduler: archive, HTTP, yEnc.
ingestVars == <<taskVars, scanVars, rarVars, httpVars, yencVars, trackerVars, dlqVars, callVars>>

\* What the actions of one layer leave alone.
notJobVars == <<streamVars, batchVars, schedVars, nntpVars, ingestVars>>
notStreamVars == <<jobVars, batchVars, schedVars, nntpVars, ingestVars>>
notBatchVars == <<jobVars, streamVars, schedVars, nntpVars, ingestVars>>
notSchedVars == <<jobVars, streamVars, nntpVars, ingestVars>>
notNntpVars == <<jobVars, streamVars, batchVars, schedVars, ingestVars>>
backVars == <<jobVars, streamVars, batchVars, schedVars, nntpVars>>
notTaskVars == <<backVars, scanVars, rarVars, httpVars, yencVars, trackerVars, dlqVars, callVars>>
notScanVars == <<backVars, taskVars, rarVars, httpVars, yencVars, trackerVars, dlqVars, callVars>>
notRarVars == <<backVars, taskVars, scanVars, httpVars, yencVars, trackerVars, dlqVars, callVars>>
notHttpVars == <<backVars, taskVars, scanVars, rarVars, yencVars, trackerVars, dlqVars, callVars>>
notYencVars == <<backVars, taskVars, scanVars, rarVars, httpVars, trackerVars, dlqVars, callVars>>
notTrackerVars == <<backVars, taskVars, scanVars, rarVars, httpVars, yencVars, dlqVars, callVars>>
notDlqVars == <<backVars, taskVars, scanVars, rarVars, httpVars, yencVars, trackerVars, callVars>>

(***************************************************************************)
(* Bounds of the model.                                                    *)
(***************************************************************************)
NJobs == 2
NSegs == 2
MaxSegLen == 2
MaxPayload == 2
MaxPar == 2
MaxFiles == 3
MaxRarStart == 1
MaxRarLength == 2
MaxReadStart == 4
MaxReadLength == 3
MaxChunk == 2
HealthFiles == 11
MaxPlaybackFile == 1
MaxQueueFiles == 3
MaxFileSegs == 3
MaxWave == 4
MaxWorkers == 2
MaxSchedFiles == 2
NDownloads == 2
MaxConnections == 2
RetryWindow == 2
NHashes == 3
MaxPart == 2
MaxBuf == 4
MaxPackLen == 2
NNames == 1
MaxJunk == 1
MaxPackSize == 3
MaxPayloadCells == 3
NSessions == 2
MaxAvail == 2
MaxRangePos == 2
MaxYencLen == 2
YencLine == 2
MaxMsgs == 4
MaxIndex == 3
MaxGlobal == 3
MaxQueue == 4
MaxPriority == 3

(***************************************************************************)
(* The idle values of the layers a specification does not drive.           *)
(***************************************************************************)

JobIdle ==
    /\ payload_length = <<>>
    /\ segment_parallelism = 0
    /\ downloads = <<>>
    /\ write_offset = <<>>
    /\ mmap = <<>>
    /\ job_result = <<>>
    /\ job_log = <<>>
    /\ overtaken = <<>>

\* stream_out when the last operation on the streamer was not a read.
NoStream == [start |-> 0, length |-> 0, chunk_size |-> 0, chunks |-> <<>>,
             panicked |-> FALSE, polled |-> FALSE]

OrchIdle ==
    /\ total_files = 0
    /\ files = <<>>
    /\ layout = <<>>
    /\ complete_files = 0
    /\ available_bytes = 0
    /\ playback_position = 0
    /\ playback_byte = 0

VfsIdle ==
    /\ segments = <<>>
    /\ stream_out = NoStream
    /\ overflow_checks = FALSE

\* The stream layer with nothing in it.
StreamIdle == OrchIdle /\ volumes = <<>> /\ VfsIdle


\* The iterator before its first next().
NoBatch == [result |-> "start", jobs |-> <<>>, priority |-> "Critical",
            health |-> "Critical"]

BatchIdle ==
    /\ gen_files = <<>>
    /\ wave_size = 0
    /\ last_batch = NoBatch
    /\ yielded = <<>>

\* A worker that holds no job.
NoJob == [path |-> 0 - 1, index |-> 0]

SchedIdle ==
    /\ max_workers = 0
    /\ sched_pc = "idle"
    /\ to_send = <<>>
    /\ chan = <<>>
    /\ tx_open = FALSE
    /\ bp_limit = 0
    /\ workers = <<>>
    /\ file_segments = <<>>
    /\ notified = {}
    /\ writers_open = FALSE
    /\ writer = <<>>
    /\ download_ok = {}
    /\ unfinished_at_next = 0

NntpIdle ==
    /\ max_connections = 0
    /\ open_conns = {}
    /\ slots = <<>>
    /\ waiters = <<>>
    /\ task_pc = <<>>
    /\ task_conn = <<>>
    /\ elapsed = <<>>
    /\ last_error = <<>>
    /\ auth_retried = <<>>

TaskIdle ==
    /\ hash_to_real = <<>>
    /\ first_segments = <<>>
    /\ tasks_result = <<>>

ScanIdle ==
    /\ par2_buffer = <<>>
    /\ scan_cursor = 0
    /\ packets = <<>>
    /\ par2_result = <<>>

RarIdle ==
    /\ rar_shape = <<>>
    /\ rar_buffer = <<>>
    /\ is_first = FALSE
    /\ rar_result = <<>>

HttpIdle ==
    /\ sessions = <<>>
    /\ http_request = <<>>
    /\ http_response = <<>>

YencIdle ==
    /\ yenc_bytes = <<>>
    /\ yenc_article = <<>>
    /\ yenc_result = <<>>

TrackerIdle ==
    /\ tracker = <<>>
    /\ marked = {}

DlqIdle ==
    /\ download_queue = <<>>
    /\ next_task = <<>>

CallIdle ==
    /\ mark_calls = <<>>

IngestIdle ==
    /\ TaskIdle
    /\ ScanIdle
    /\ RarIdle
    /\ HttpIdle
    /\ YencIdle
    /\ TrackerIdle
    /\ DlqIdle
    /\ CallIdle

Jobs == 0 .. NJobs - 1
\* job.task.nzb().segments: every segment of the volume, segment 0 included.
Segs == 0 .. NSegs - 1

Min(a, b) == IF a < b THEN a ELSE b
Max(a, b) == IF a > b THEN a ELSE b

RECURSIVE SumTo(_, _)
\* f[0] + ... + f[n-1]
SumTo(f, n) == IF n = 0 THEN 0 ELSE SumTo(f, n - 1) + f[n - 1]

(***************************************************************************)
(* scheduler/job_processor.rs                                              *)
(***************************************************************************)

\* The offset of job k, computed once up front: O_k is the sum of the payload
\* lengths of the volumes before k (spec 4.G; the Job type that carries it is
\* not among the sources).
JobOffset(k) == SumTo(payload_length, k)

\* The map is sized to the sum of all task payload lengths (spec 4.E).
MmapLen == SumTo(payload_length, NJobs)

Queued == [st |-> "queued", len |-> 0]
InFlight == [st |-> "inflight", len |-> 0]
Taken == [st |-> "taken", len |-> 0]
DownloadErr == [st |-> "err", len |-> 0]
DownloadOk(n) == [st |-> "ok", len |-> n]

Outcomes == {DownloadErr} \cup {DownloadOk(n) : n \in 1 .. MaxSegLen}

IsDone(d) == d.st \in {"ok", "err"}

\* stream.buffered(n) holds the futures it has started and not yet yielded.
InProgress(k) == {s \in Segs : downloads[k][s].st \in {"inflight", "ok", "err"}}

\* The first segment the stream has not yielded yet.
HeadSeg(k) == CHOOSE s \in Segs :
              /\ downloads[k][s].st # "taken"
              /\ \A t \in Segs : t < s => downloads[k][t].st = "taken"

Exhausted(k) == \A s \in Segs : downloads[k][s].st = "taken"

\* buffer_unordered instead of buffered: any finished download is yielded.
YieldableUnordered(k) == {s \in Segs : IsDone(downloads[k][s])}

\* downloads.next(): buffered yields the results in the order of the input
\* stream, so only the head can be yielded, once it has finished.
Yieldable(k) ==
    IF ~Exhausted(k) /\ IsDone(downloads[k][HeadSeg(k)]) THEN {HeadSeg(k)} ELSE {}

\* fn write_to_mmap: copy data[..end - start] to guard[start..end], with end
\* clamped to the length of the map.
WriteToMmap(m, k, s, offset, len) ==
    LET start == offset
        end == Min(start + len, MmapLen)
    IN  IF end > start
        THEN [b \in DOMAIN m |->
                IF b >= start /\ b < end THEN <<k, s, b - start>> ELSE m[b]]
        ELSE m

\* write_offset += data.len()
Advance(offset, len) == offset + len

JobInit ==
    /\ payload_length \in [Jobs -> 1 .. MaxPayload]
    /\ segment_parallelism \in 1 .. MaxPar
    /\ downloads = [k \in Jobs |-> [s \in Segs |-> Queued]]
    /\ write_offset = [k \in Jobs |-> JobOffset(k)]
    /\ mmap = [b \in 0 .. MmapLen - 1 |-> <<>>]
    /\ job_result = [k \in Jobs |-> "running"]
    /\ job_log = [k \in Jobs |-> <<>>]
    /\ overtaken = [k \in Jobs |-> FALSE]
    /\ StreamIdle
    /\ BatchIdle
    /\ SchedIdle
    /\ NntpIdle
    /\ IngestIdle

\* buffered polls the next future of the input stream while fewer than
\* segment_parallelism are in progress.
StartDownload(k) ==
    /\ job_result[k] = "running"
    /\ Cardinality(InProgress(k)) < segment_parallelism
    /\ \E s \in Segs :
          /\ downloads[k][s].st = "queued"
          /\ \A t \in Segs : t < s => downloads[k][t].st # "queued"
          /\ downloads' = [downloads EXCEPT ![k][s] = InFlight]
    /\ UNCHANGED <<payload_length, segment_parallelism, write_offset, mmap,
                   job_result, job_log, overtaken>>
    /\ UNCHANGED notJobVars

\* client.download(&segment) returns: the decoded bytes, or the error left
\* once the retries are exhausted.
FinishDownload(k) ==
    \E s \in Segs, o \in Outcomes :
        /\ downloads[k][s].st = "inflight"
        /\ downloads' = [downloads EXCEPT ![k][s] = o]
        /\ overtaken' = [overtaken EXCEPT ![k] =
              @ \/ \E t \in Segs : t < s /\ downloads[k][t].st = "inflight"]
        /\ UNCHANGED <<payload_length, segment_parallelism, write_offset,
                       mmap, job_result, job_log>>
        /\ UNCHANGED notJobVars

\* One iteration of `while let Some(download) = downloads.next().await`.
WriteSegment(k) ==
    /\ job_result[k] = "running"
    /\ \E s \in Yieldable(k) :
          LET d == downloads[k][s] IN
          /\ downloads' = [downloads EXCEPT ![k][s] = Taken]
          /\ IF d.st = "ok"
             THEN /\ mmap' = WriteToMmap(mmap, k, s, write_offset[k], d.len)
                  /\ write_offset' =
                        [write_offset EXCEPT ![k] = Advance(@, d.len)]
             ELSE UNCHANGED <<mmap, write_offset>>
          /\ job_log' = [job_log EXCEPT ![k] =
                Append(@, [seg |-> s, offset |-> write_offset[k],
                           len |-> d.len, ok |-> d.st = "ok"])]
    /\ UNCHANGED <<payload_length, segment_parallelism, job_result, overtaken>>
    /\ UNCHANGED notJobVars

\* downloads.next() returns None: process_job returns Ok(()).
JobReturn(k) ==
    /\ job_result[k] = "running"
    /\ Exhausted(k)
    /\ job_result' = [job_result EXCEPT ![k] = "Ok"]
    /\ UNCHANGED <<payload_length, segment_parallelism, downloads,
                   write_offset, mmap, job_log, overtaken>>
    /\ UNCHANGED notJobVars

\* The jobs of a batch, run concurrently against the one map.
JobNext ==
    \E k \in Jobs :
        \/ StartDownload(k)
        \/ FinishDownload(k)
        \/ WriteSegment(k)
        \/ JobReturn(k)

\* process_job has not been called for job k.
NotCalled(k) ==
    /\ job_result[k] = "running"
    /\ job_log[k] = <<>>
    /\ \A s \in Segs : downloads[k][s] = Queued

\* One call of process_job, for any one of the jobs.
OneJobNext ==
    \E k \in Jobs :
        /\ \A j \in Jobs \ {k} : NotCalled(j)
        /\ \/ StartDownload(k)
           \/ FinishDownload(k)
           \/ WriteSegment(k)
           \/ JobReturn(k)

(***************************************************************************)
(* stream/orchestrator.rs                                                  *)
(***************************************************************************)

FileIds == 0 .. total_files - 1

\* update_playback_position assumes ~700MB per file.
PlaybackFileBytes == 700 * 1024 * 1024

\* a.saturating_sub(b)
SaturatingSub(a, b) == IF a > b THEN a - b ELSE 0

\* StreamOrchestrator::new: nothing is complete initially.
NewFileState(idx) ==
    [index |-> idx, is_complete |-> FALSE, rar_start |-> 0, rar_length |-> 0]

\* analyse_rar_volume(path, is_first): where the payload of the volume lies.
AnalyseRarVolume(f) == volumes[f]

RECURSIVE CountWhileComplete(_, _)
\* states.into_iter().take_while(|s| s.is_complete), states sorted by index:
\* how many files, counted from index i, are complete without a gap.
CountWhileComplete(fs, i) ==
    IF i \in DOMAIN fs /\ fs[i].is_complete
    THEN 1 + CountWhileComplete(fs, i + 1)
    ELSE 0

\* filter instead of take_while: every complete file, gaps skipped.
ContinuousFilesFiltered(fs) ==
    LET RECURSIVE Collect(_)
        Collect(i) ==
            IF i \notin DOMAIN fs THEN <<>>
            ELSE (IF fs[i].is_complete THEN <<fs[i]>> ELSE <<>>) \o Collect(i + 1)
    IN  Collect(0)

\* continuous_files of rebuild_layout_if_continuous.
ContinuousFiles(fs) ==
    [i \in 1 .. CountWhileComplete(fs, 0) |-> fs[i - 1]]

RECURSIVE RarLengthSum(_, _)
\* virtual_offset after the first n continuous files
RarLengthSum(cont, n) ==
    IF n = 0 THEN 0 ELSE RarLengthSum(cont, n - 1) + cont[n].rar_length

NewLayoutOffsetAfter(cont) ==
    [i \in 1 .. Len(cont) |->
        [path |-> cont[i].index,
         start |-> cont[i].rar_start,
         length |-> cont[i].rar_length,
         virtual_start |-> RarLengthSum(cont, i)]]

\* new_layout of rebuild_layout_if_continuous.
NewLayout(cont) ==
    [i \in 1 .. Len(cont) |->
        [path |-> cont[i].index,
         start |-> cont[i].rar_start,
         length |-> cont[i].rar_length,
         virtual_start |-> RarLengthSum(cont, i - 1)]]

\* rebuild_layout_if_continuous, given the file states after the update.
RebuildLayoutIfContinuous(fs) ==
    LET cont == ContinuousFiles(fs) IN
    IF Len(cont) = 0
    THEN UNCHANGED <<available_bytes, layout>>
    ELSE /\ available_bytes' = RarLengthSum(cont, Len(cont))
         /\ layout' = NewLayout(cont)

\* The thresholds shifted by one file.
HealthOfOffByOne(buffer) ==
    IF buffer <= 3 THEN "Critical"
    ELSE IF buffer <= 6 THEN "Poor"
    ELSE IF buffer <= 11 THEN "Good"
    ELSE "Excellent"

HealthOfSwapped(buffer) ==
    IF buffer <= 2 THEN "Critical"
    ELSE IF buffer <= 5 THEN "Good"
    ELSE IF buffer <= 10 THEN "Poor"
    ELSE "Excellent"

\* The match of get_buffer_health on the number of buffered files.
HealthOf(buffer) ==
    IF buffer <= 2 THEN "Critical"
    ELSE IF buffer <= 5 THEN "Poor"
    ELSE IF buffer <= 10 THEN "Good"
    ELSE "Excellent"

\* StreamOrchestrator::get_buffer_health
GetBufferHealth == HealthOf(SaturatingSub(complete_files, playback_position))

\* StreamOrchestrator::get_available_bytes
GetAvailableBytes == available_bytes

(***************************************************************************)
(* stream/virtual_file_streamer.rs                                         *)
(***************************************************************************)

VolumeSegment(p, st, len, vs, c) ==
    [path |-> p, start |-> st, length |-> len, virtual_start |-> vs,
     is_complete |-> c]

\* VirtualFileStreamer::new
NewSegments(n) == [i \in 1 .. n |-> VolumeSegment(i - 1, 0, 0, 0, FALSE)]

RECURSIVE CompleteLengthBefore(_, _)
\* The offset the recalculation loop of mark_file_complete has reached at
\* segment i: the lengths of the complete segments before it.
CompleteLengthBefore(segs, i) ==
    IF i <= 1 THEN 0
    ELSE CompleteLengthBefore(segs, i - 1)
         + (IF segs[i - 1].is_complete THEN segs[i - 1].length ELSE 0)

\* mark_file_complete: "Recalculate virtual offsets for all complete segments"
RecalculateVirtualOffsets(segs) ==
    [i \in 1 .. Len(segs) |->
        [segs[i] EXCEPT !.virtual_start = CompleteLengthBefore(segs, i)]]

RECURSIVE LeadingComplete(_, _)
\* iter().take_while(|seg| seg.is_complete): how many segments it passes
LeadingComplete(segs, i) ==
    IF i <= Len(segs) /\ segs[i].is_complete
    THEN 1 + LeadingComplete(segs, i + 1)
    ELSE 0

\* VirtualFileStreamer::get_available_bytes
VfsGetAvailableBytes(segs) ==
    LET n == LeadingComplete(segs, 1) IN
    IF n = 0 THEN 0 ELSE segs[n].virtual_start + segs[n].length

RECURSIVE MaxAvailable(_, _, _)
\* read_range_with_chunk_size: the loop that computes max_available
MaxAvailable(snapshot, i, acc) ==
    IF i > Len(snapshot) THEN acc
    ELSE IF snapshot[i].is_complete
         THEN MaxAvailable(snapshot, i + 1,
                           snapshot[i].virtual_start + snapshot[i].length)
         ELSE acc

\* Stands for 2^64, which is beyond the integers of the model checker; every
\* position of the model is far below it.
U64Modulus == 2 ^ 30

RECURSIVE YieldCompleteChunks(_, _)
\* while pending_data.len() >= chunk_size { yield pending_data.split_to(..) }
YieldCompleteChunks(r, chunk_size) ==
    IF Len(r.pending) >= chunk_size
    THEN YieldCompleteChunks(
            [r EXCEPT !.chunks = Append(@, SubSeq(r.pending, 1, chunk_size)),
                      !.pending = SubSeq(@, chunk_size + 1, Len(@))],
            chunk_size)
    ELSE r

RECURSIVE ReadSegment(_, _, _, _)
\* while segment_remaining > 0 && current_pos < actual_end { ... }
ReadSegment(seg, r, actual_end, chunk_size) ==
    IF r.segment_remaining > 0 /\ r.current_pos < actual_end
    THEN LET to_read == Min(chunk_size, r.segment_remaining)
             buffer == [i \in 1 .. to_read |-> <<seg.path, r.file_pos + i - 1>>]
             got == YieldCompleteChunks(
                        [r EXCEPT !.pending = @ \o buffer], chunk_size)
         IN  ReadSegment(seg,
                 [got EXCEPT !.current_pos = @ + to_read,
                             !.file_pos = @ + to_read,
                             !.segment_remaining = @ - to_read],
                 actual_end, chunk_size)
    ELSE r

RECURSIVE ReadSnapshot(_, _, _, _, _, _)
\* for segment in &snapshot { ... }
ReadSnapshot(snapshot, i, r, end, actual_end, chunk_size) ==
    IF i > Len(snapshot) THEN r
    ELSE LET segment == snapshot[i]
             segment_end == segment.virtual_start + segment.length
         IN
         IF segment_end <= r.current_pos
         THEN ReadSnapshot(snapshot, i + 1, r, end, actual_end, chunk_size)
         ELSE IF segment.virtual_start >= end THEN r
         ELSE IF ~segment.is_complete THEN r
         ELSE LET seg_offset == SaturatingSub(r.current_pos, segment.virtual_start)
                  segment_read_end == Min(segment_end, actual_end)
                  diff == segment_read_end - r.current_pos
              IN  IF diff < 0 /\ overflow_checks
                  THEN [r EXCEPT !.panicked = TRUE]
                  ELSE ReadSnapshot(snapshot, i + 1,
                          ReadSegment(segment,
                              [r EXCEPT !.file_pos = segment.start + seg_offset,
                                        !.segment_remaining = diff % U64Modulus],
                              actual_end, chunk_size),
                          end, actual_end, chunk_size)

\* read_range_with_chunk_size over a snapshot of the segments: the chunks the
\* stream yields, and whether it panicked on the way.
ReadRangeWithChunkSize(snapshot, start, length, chunk_size) ==
    LET end == start + length
        actual_end == Min(end, MaxAvailable(snapshot, 1, 0))
        r == ReadSnapshot(snapshot, 1,
                [current_pos |-> start, file_pos |-> 0, segment_remaining |-> 0,
                 pending |-> <<>>, chunks |-> <<>>, panicked |-> FALSE],
                end, actual_end, chunk_size)
    IN  [chunks |-> IF ~r.panicked /\ Len(r.pending) > 0
                    THEN Append(r.chunks, r.pending) ELSE r.chunks,
         panicked |-> r.panicked]

(***************************************************************************)
(* The stream layer: initial states and actions.                           *)
(***************************************************************************)

RarVolumes == [start : 0 .. MaxRarStart, length : 1 .. MaxRarLength]

OrchNew(n) ==
    /\ total_files = n
    /\ files = [f \in 0 .. n - 1 |-> NewFileState(f)]
    /\ layout = <<>>
    /\ complete_files = 0
    /\ available_bytes = 0
    /\ playback_position = 0
    /\ playback_byte = 0

\* StreamOrchestrator::mark_file_complete; the scheduler calls it once for a
\* file, when the last segment of the file has arrived.
MarkFileComplete(f) ==
    /\ ~files[f].is_complete
    /\ LET vol == AnalyseRarVolume(f)
           altered == [files EXCEPT ![f] =
                          [@ EXCEPT !.is_complete = TRUE,
                                    !.rar_start = vol.start,
                                    !.rar_length = vol.length]]
       IN  /\ files' = altered
           /\ complete_files' = complete_files + 1
           /\ RebuildLayoutIfContinuous(altered)
    /\ UNCHANGED <<total_files, volumes, playback_position, playback_byte,
                   segments, stream_out, overflow_checks>>
    /\ UNCHANGED notStreamVars

\* StreamOrchestrator::get_stream: update_playback_position(start), then a
\* lazy stream over a clone of the layout is returned.
GetStream(start) ==
    /\ playback_position' = start \div PlaybackFileBytes
    /\ playback_byte' = start
    /\ UNCHANGED <<total_files, volumes, files, layout, complete_files,
                   available_bytes, segments, stream_out, overflow_checks>>
    /\ UNCHANGED notStreamVars

\* VirtualFileStreamer::mark_file_complete
VfsMarkFileComplete(f) ==
    /\ ~segments[f + 1].is_complete
    /\ LET vol == AnalyseRarVolume(f) IN
       segments' = RecalculateVirtualOffsets(
           [segments EXCEPT ![f + 1] =
               [@ EXCEPT !.start = vol.start, !.length = vol.length,
                         !.is_complete = TRUE]])
    /\ stream_out' = NoStream
    /\ UNCHANGED <<total_files, volumes, files, layout, complete_files,
                   available_bytes, playback_position, playback_byte,
                   overflow_checks>>
    /\ UNCHANGED notStreamVars

\* VirtualFileStreamer::read_range_with_chunk_size, and the consumer polling
\* the stream it returns to its end.
VfsReadRange(start, length, chunk_size) ==
    /\ LET out == ReadRangeWithChunkSize(segments, start, length, chunk_size) IN
       stream_out' = [start |-> start, length |-> length,
                      chunk_size |-> chunk_size,
                      chunks |-> out.chunks, panicked |-> out.panicked,
                      polled |-> TRUE]
    /\ UNCHANGED <<total_files, volumes, files, layout, complete_files,
                   available_bytes, playback_position, playback_byte,
                   segments, overflow_checks>>
    /\ UNCHANGED notStreamVars


StartPositions ==
    (0 .. MaxReadStart) \cup {k * PlaybackFileBytes : k \in 1 .. MaxPlaybackFile}

\* A session of up to MaxFiles volumes: the orchestrator and a streamer.
StreamInit ==
    /\ \E n \in 1 .. MaxFiles :
          /\ OrchNew(n)
          /\ volumes \in [0 .. n - 1 -> RarVolumes]
          /\ segments = NewSegments(n)
    /\ stream_out = NoStream
    /\ overflow_checks = FALSE
    /\ JobIdle
    /\ BatchIdle
    /\ SchedIdle
    /\ NntpIdle
    /\ IngestIdle

StreamNext ==
    \/ \E f \in FileIds : MarkFileComplete(f)
    \/ \E f \in FileIds : VfsMarkFileComplete(f)

\* The streamer alone, read while its volumes complete; either build profile.
VfsInit ==
    /\ \E n \in 1 .. MaxFiles :
          /\ total_files = n
          /\ volumes \in [0 .. n - 1 -> RarVolumes]
          /\ segments = NewSegments(n)
    /\ files = <<>>
    /\ layout = <<>>
    /\ complete_files = 0
    /\ available_bytes = 0
    /\ playback_position = 0
    /\ playback_byte = 0
    /\ stream_out = NoStream
    /\ overflow_checks \in BOOLEAN
    /\ JobIdle
    /\ BatchIdle
    /\ SchedIdle
    /\ NntpIdle
    /\ IngestIdle

VfsNext ==
    \/ \E f \in FileIds : VfsMarkFileComplete(f)
    \/ \E start \in 0 .. MaxReadStart, length \in 0 .. MaxReadLength,
          chunk_size \in 1 .. MaxChunk :
          VfsReadRange(start, length, chunk_size)

\* The orchestrator of a session of HealthFiles volumes of one size.
HealthInit ==
    /\ OrchNew(HealthFiles)
    /\ \E v \in RarVolumes : volumes = [f \in 0 .. HealthFiles - 1 |-> v]
    /\ VfsIdle
    /\ JobIdle
    /\ BatchIdle
    /\ SchedIdle
    /\ NntpIdle
    /\ IngestIdle

HealthNext ==
    \/ \E f \in FileIds : MarkFileComplete(f)
    \/ \E start \in StartPositions : GetStream(start)

\* The orchestrator of a session of 1 to HealthFiles volumes of one size, the
\* player staying at the start of the stream while the volumes complete.
BufferingInit ==
    /\ \E n \in 1 .. HealthFiles :
          /\ OrchNew(n)
          /\ \E v \in RarVolumes : volumes = [f \in 0 .. n - 1 |-> v]
    /\ VfsIdle
    /\ JobIdle
    /\ BatchIdle
    /\ SchedIdle
    /\ NntpIdle
    /\ IngestIdle

BufferingNext == \E f \in FileIds : MarkFileComplete(f)

(***************************************************************************)
(* scheduler/queue.rs, scheduler/batch.rs                                  *)
(***************************************************************************)

Healths == {"Critical", "Poor", "Good", "Excellent"}

\* impl From<BufferHealth> for Priority
PriorityFrom(health) ==
    IF health = "Critical" THEN "Critical"
    ELSE IF health = "Poor" THEN "Balanced"
    ELSE "Parallel"

\* Job::new(segment, path, index)
Job(path, index) == [path |-> path, index |-> index]

\* FileQueue::new(path, nzb, start_index) for a file of n segments: the jobs
\* of the segments start_index .. n - 1, in order.
NewFileQueue(path, n, start_index) ==
    [path |-> path,
     segments |-> [i \in 1 .. n - start_index |-> Job(path, start_index + i - 1)],
     total |-> n - start_index,
     start_index |-> start_index]

\* FileQueue::is_empty
IsEmpty(q) == Len(q.segments) = 0

\* FileQueue::take: the jobs drained from the front of the queue ...
Taken_(q, count) == SubSeq(q.segments, 1, Min(count, Len(q.segments)))
\* ... and the queue they leave.
AfterTake(q, count) ==
    [q EXCEPT !.segments =
        SubSeq(@, Min(count, Len(@)) + 1, Len(@))]

\* The positions of the non-empty queues, in order.
NonEmpty(fs) == {i \in 1 .. Len(fs) : ~IsEmpty(fs[i])}

\* The n smallest members of a set of positions: iter.take(n).
FirstN(S, n) == {i \in S : Cardinality({j \in S : j < i}) < n}

RECURSIVE JobsOfEach(_, _, _, _)
\* sel.flat_map(|f| f.take(count)): the jobs, in the order of the queues
JobsOfEach(fs, sel, count, i) ==
    IF i > Len(fs) THEN <<>>
    ELSE (IF i \in sel THEN Taken_(fs[i], count) ELSE <<>>)
         \o JobsOfEach(fs, sel, count, i + 1)

\* The queues after every selected one gave up to count jobs.
AfterTakeEach(fs, sel, count) ==
    [i \in 1 .. Len(fs) |->
        IF i \in sel THEN AfterTake(fs[i], count) ELSE fs[i]]

\* What one take_* function returns, and the queues it leaves.
Took(jobs, fs) == [jobs |-> jobs, files |-> fs]

TakeCriticalTwoFiles(fs, wave) ==
    LET sel == FirstN(NonEmpty(fs), 2) IN
    Took(JobsOfEach(fs, sel, wave, 1), AfterTakeEach(fs, sel, wave))

\* BatchGenerator::take_critical
TakeCritical(fs, wave) ==
    LET sel == FirstN(NonEmpty(fs), 1) IN
    Took(JobsOfEach(fs, sel, wave, 1), AfterTakeEach(fs, sel, wave))

\* const FILES_PER_WAVE
FILES_PER_WAVE == 3

\* BatchGenerator::take_balanced
TakeBalanced(fs, wave) ==
    LET per_file == wave \div FILES_PER_WAVE
        sel == FirstN(NonEmpty(fs), FILES_PER_WAVE)
        jobs == JobsOfEach(fs, sel, per_file, 1)
        fs1 == AfterTakeEach(fs, sel, per_file)
    IN  IF Len(jobs) < wave \div 2
        THEN LET remaining == wave - Len(jobs)
                 rest == NonEmpty(fs1)
             IN  Took(jobs \o JobsOfEach(fs1, rest, remaining, 1),
                      AfterTakeEach(fs1, rest, remaining))
        ELSE Took(jobs, fs1)

\* BatchGenerator::take_parallel
TakeParallel(fs, wave) ==
    LET active == Cardinality(NonEmpty(fs)) IN
    IF active = 0 THEN Took(<<>>, fs)
    ELSE LET per_file == Max(wave \div active, 1)
             sel == NonEmpty(fs)
         IN  Took(JobsOfEach(fs, sel, per_file, 1),
                  AfterTakeEach(fs, sel, per_file))

\* BatchGenerator::generate_batch: the jobs taken for the priority; the batch
\* is None when there are none.
GenerateBatch(fs, wave, priority) ==
    IF priority = "Critical" THEN TakeCritical(fs, wave)
    ELSE IF priority = "Balanced" THEN TakeBalanced(fs, wave)
    ELSE TakeParallel(fs, wave)

\* What BatchIterator::next returned.
BatchResult(took, priority, health) ==
    [result |-> IF Len(took.jobs) > 0 THEN "Some" ELSE "None",
     jobs |-> took.jobs, priority |-> priority, health |-> health]

\* The first segment of every file is downloaded before the queues are built,
\* so a queued file has at least one segment and its queue starts at index 1.
FirstQueued == 1

\* BatchGenerator::new(files, wave_size) over the queues of up to
\* MaxQueueFiles files of up to MaxFileSegs segments.
BatchInit ==
    /\ \E n \in 1 .. MaxQueueFiles :
          \E size \in [1 .. n -> 1 .. MaxFileSegs] :
              gen_files = [i \in 1 .. n |-> NewFileQueue(i - 1, size[i], FirstQueued)]
    /\ wave_size \in 1 .. MaxWave
    /\ last_batch = NoBatch
    /\ yielded = <<>>
    /\ JobIdle
    /\ StreamIdle
    /\ SchedIdle
    /\ NntpIdle
    /\ IngestIdle

\* BatchIterator::next, reading `health` through priority_fn.
NextBatch(health) ==
    /\ LET priority == PriorityFrom(health)
           took == GenerateBatch(gen_files, wave_size, priority)
       IN  /\ gen_files' = took.files
           /\ last_batch' = BatchResult(took, priority, health)
           /\ yielded' = yielded \o took.jobs
    /\ UNCHANGED wave_size

\* The iterator on its own: every call of next() until the first None.
IterNext(health) ==
    /\ last_batch.result # "None"
    /\ NextBatch(health)
    /\ UNCHANGED notBatchVars

BatchNext == \E health \in Healths : IterNext(health)

(***************************************************************************)
(* scheduler/adaptive.rs, scheduler/writer.rs                              *)
(***************************************************************************)

WorkerIds == 1 .. MaxWorkers

\* The paths of the session's files.
Paths == {gen_files[i].path : i \in 1 .. Len(gen_files)}

\* async_channel::bounded(self.max_workers * 2)
ChannelCapacity == max_workers * 2

\* The jobs yielded so far that no worker has finished: not yet sent, waiting
\* in the channel, or being processed.
Unfinished ==
    Len(to_send) + Len(chan)
    + Cardinality({w \in WorkerIds : workers[w].pc \in {"download", "write"}})

\* process_batches, "Adaptive backpressure": the channel length above which
\* the loop sleeps before the next batch; the capacity when it does not wait.
BackpressureLimit(health, priority) ==
    IF health = "Critical" THEN 1
    ELSE IF health = "Poor" THEN max_workers \div 2
    ELSE IF priority = "Critical" THEN max_workers
    ELSE ChannelCapacity

RECURSIVE DrainPending(_, _)
\* ordered_file_writer: while let Some(data) = pending.remove(&expected)
DrainPending(expected, pending) ==
    IF expected \in pending
    THEN DrainPending(expected + 1, pending \ {expected})
    ELSE [expected |-> expected, pending |-> pending]

\* ordered_file_writer writing every message as it arrives.
ReceivedUnordered(w, index) ==
    [w EXCEPT !.chan = Tail(@), !.written = Append(@, index)]

\* ordered_file_writer receiving (index, data): written at once, with the
\* pending segments that follow it, when it is the expected one; parked in
\* pending otherwise.
Received(w, index) ==
    IF index = w.expected
    THEN LET d == DrainPending(w.expected + 1, w.pending) IN
         [w EXCEPT !.chan = Tail(@),
                   !.expected = d.expected,
                   !.pending = d.pending,
                   !.written = @ \o [k \in 1 .. d.expected - w.expected |->
                                        w.expected + k - 1]]
    ELSE [w EXCEPT !.chan = Tail(@), !.pending = @ \cup {index}]

\* prepare_session and the head of process_batches: a writer task per file
\* (the file holds segment 0 already), the job channel, the progress map
\* and max_workers workers; the generator's wave size is max_workers.
SchedInit ==
    /\ max_workers \in 1 .. MaxWorkers
    /\ \E n \in 1 .. MaxSchedFiles :
          \E size \in [1 .. n -> 1 .. MaxFileSegs] :
              gen_files = [i \in 1 .. n |-> NewFileQueue(i - 1, size[i], FirstQueued)]
    /\ wave_size = max_workers
    /\ last_batch = NoBatch
    /\ yielded = <<>>
    /\ sched_pc = "next"
    /\ to_send = <<>>
    /\ chan = <<>>
    /\ tx_open = TRUE
    /\ bp_limit = 0
    /\ workers = [w \in WorkerIds |->
                     [pc |-> IF w <= max_workers THEN "recv" ELSE "unspawned",
                      job |-> NoJob]]
    /\ file_segments = [p \in Paths |->
                           [total |-> gen_files[p + 1].total, completed |-> 1]]
    /\ notified = {}
    /\ writers_open = TRUE
    /\ writer = [p \in Paths |->
                    [chan |-> <<>>, expected |-> 1, pending |-> {},
                     written |-> <<0>>, done |-> FALSE]]
    /\ download_ok = {}
    /\ unfinished_at_next = 0
    /\ JobIdle
    /\ StreamIdle
    /\ NntpIdle
    /\ IngestIdle

\* process_batches: `for batch in generator` calls next(); None ends the loop.
SchedIterNext(health) ==
    /\ sched_pc = "next"
    /\ NextBatch(health)
    /\ LET took == GenerateBatch(gen_files, wave_size, PriorityFrom(health)) IN
          /\ to_send' = took.jobs
          /\ sched_pc' = IF Len(took.jobs) > 0 THEN "send" ELSE "drop"
    /\ unfinished_at_next' = Unfinished
    /\ UNCHANGED <<max_workers, chan, tx_open, bp_limit, workers,
                   file_segments, notified, writers_open, writer, download_ok>>
    /\ UNCHANGED notSchedVars

\* process_batches: tx.send(job).await, which waits while the channel is full.
SchedSend ==
    /\ sched_pc = "send"
    /\ Len(chan) < ChannelCapacity
    /\ chan' = Append(chan, Head(to_send))
    /\ to_send' = Tail(to_send)
    /\ sched_pc' = IF Len(to_send) = 1 THEN "health" ELSE "send"
    /\ UNCHANGED <<max_workers, tx_open, bp_limit, workers, file_segments,
                   notified, writers_open, writer, download_ok,
                   unfinished_at_next>>
    /\ UNCHANGED <<batchVars, notSchedVars>>

\* process_batches: match orchestrator.get_buffer_health()
SchedReadHealth(health) ==
    /\ sched_pc = "health"
    /\ bp_limit' = BackpressureLimit(health, last_batch.priority)
    /\ sched_pc' = "wait"
    /\ UNCHANGED <<max_workers, to_send, chan, tx_open, workers,
                   file_segments, notified, writers_open, writer, download_ok,
                   unfinished_at_next>>
    /\ UNCHANGED <<batchVars, notSchedVars>>

\* process_batches: while tx.len() > limit { sleep }
SchedWait ==
    /\ sched_pc = "wait"
    /\ Len(chan) <= bp_limit
    /\ sched_pc' = "next"
    /\ UNCHANGED <<max_workers, to_send, chan, tx_open, bp_limit, workers,
                   file_segments, notified, writers_open, writer, download_ok,
                   unfinished_at_next>>
    /\ UNCHANGED <<batchVars, notSchedVars>>

\* process_batches: drop(tx)
SchedDrop ==
    /\ sched_pc = "drop"
    /\ tx_open' = FALSE
    /\ sched_pc' = "join"
    /\ UNCHANGED <<max_workers, to_send, chan, bp_limit, workers,
                   file_segments, notified, writers_open, writer, download_ok,
                   unfinished_at_next>>
    /\ UNCHANGED <<batchVars, notSchedVars>>

\* process_batches: join_all(workers).await
SchedJoin ==
    /\ sched_pc = "join"
    /\ \A w \in WorkerIds : workers[w].pc \in {"finished", "unspawned"}
    /\ sched_pc' = "close"
    /\ UNCHANGED <<max_workers, to_send, chan, tx_open, bp_limit, workers,
                   file_segments, notified, writers_open, writer, download_ok,
                   unfinished_at_next>>
    /\ UNCHANGED <<batchVars, notSchedVars>>

\* FileWriterPool::close_all: self.writers.clear() drops every sender ...
CloseAll ==
    /\ sched_pc = "close"
    /\ writers_open' = FALSE
    /\ sched_pc' = "sleep"
    /\ UNCHANGED <<max_workers, to_send, chan, tx_open, bp_limit, workers,
                   file_segments, notified, writer, download_ok,
                   unfinished_at_next>>
    /\ UNCHANGED <<batchVars, notSchedVars>>

\* ... and the 100 ms sleep ends, whatever the writer tasks have done by
\* then; process_batches returns Ok(()).
SchedReturn ==
    /\ sched_pc = "sleep"
    /\ sched_pc' = "returned"
    /\ UNCHANGED <<max_workers, to_send, chan, tx_open, bp_limit, workers,
                   file_segments, notified, writers_open, writer, download_ok,
                   unfinished_at_next>>
    /\ UNCHANGED <<batchVars, notSchedVars>>

\* spawn_worker: rx.recv() hands the worker the oldest job of the channel.
WorkerRecv(w) ==
    /\ workers[w].pc = "recv"
    /\ Len(chan) > 0
    /\ workers' = [workers EXCEPT ![w] = [pc |-> "download", job |-> Head(chan)]]
    /\ chan' = Tail(chan)
    /\ UNCHANGED <<max_workers, sched_pc, to_send, tx_open, bp_limit,
                   file_segments, notified, writers_open, writer, download_ok,
                   unfinished_at_next>>
    /\ UNCHANGED <<batchVars, notSchedVars>>

\* spawn_worker: rx.recv() is Err once the channel is empty and closed.
WorkerExit(w) ==
    /\ workers[w].pc = "recv"
    /\ Len(chan) = 0
    /\ ~tx_open
    /\ workers' = [workers EXCEPT ![w].pc = "finished"]
    /\ UNCHANGED <<max_workers, sched_pc, to_send, chan, tx_open, bp_limit,
                   file_segments, notified, writers_open, writer, download_ok,
                   unfinished_at_next>>
    /\ UNCHANGED <<batchVars, notSchedVars>>

\* process_job: client.download(job.segment()).await?; a failure is logged
\* by the worker, which goes on to the next job.
WorkerDownload(w, ok) ==
    /\ workers[w].pc = "download"
    /\ LET job == workers[w].job IN
       IF ok
       THEN /\ workers' = [workers EXCEPT ![w].pc = "write"]
            /\ download_ok' = download_ok \cup {<<job.path, job.index>>}
       ELSE /\ workers' = [workers EXCEPT ![w] = [pc |-> "recv", job |-> NoJob]]
            /\ UNCHANGED download_ok
    /\ UNCHANGED <<max_workers, sched_pc, to_send, chan, tx_open, bp_limit,
                   file_segments, notified, writers_open, writer,
                   unfinished_at_next>>
    /\ UNCHANGED <<batchVars, notSchedVars>>

\* process_job: writers.write(path, index, data), then the worker's Ok arm:
\* the file's completed count goes up and the orchestrator is notified when
\* it equals the total. A write that finds no writer is an error, logged.
WorkerWrite(w) ==
    /\ workers[w].pc = "write"
    /\ LET job == workers[w].job
           p == job.path
           completed == file_segments[p].completed + 1
       IN  IF writers_open /\ ~writer[p].done
           THEN /\ writer' = [writer EXCEPT ![p].chan = Append(@, job.index)]
                /\ file_segments' = [file_segments EXCEPT ![p].completed = completed]
                /\ notified' = IF completed = file_segments[p].total
                               THEN notified \cup {p} ELSE notified
           ELSE UNCHANGED <<writer, file_segments, notified>>
    /\ workers' = [workers EXCEPT ![w] = [pc |-> "recv", job |-> NoJob]]
    /\ UNCHANGED <<max_workers, sched_pc, to_send, chan, tx_open, bp_limit,
                   writers_open, download_ok, unfinished_at_next>>
    /\ UNCHANGED <<batchVars, notSchedVars>>

\* ordered_file_writer: rx.recv() yields the oldest (index, data).
WriterRecv(p) ==
    /\ p \in DOMAIN writer
    /\ ~writer[p].done
    /\ Len(writer[p].chan) > 0
    /\ writer' = [writer EXCEPT ![p] = Received(@, Head(@.chan))]
    /\ UNCHANGED <<max_workers, sched_pc, to_send, chan, tx_open, bp_limit,
                   workers, file_segments, notified, writers_open, download_ok,
                   unfinished_at_next>>
    /\ UNCHANGED <<batchVars, notSchedVars>>

\* ordered_file_writer: rx.recv() is None once every sender is dropped and
\* the channel is empty; the task flushes and ends, pending and all.
WriterEnd(p) ==
    /\ p \in DOMAIN writer
    /\ ~writer[p].done
    /\ Len(writer[p].chan) = 0
    /\ ~writers_open
    /\ writer' = [writer EXCEPT ![p].done = TRUE]
    /\ UNCHANGED <<max_workers, sched_pc, to_send, chan, tx_open, bp_limit,
                   workers, file_segments, notified, writers_open, download_ok,
                   unfinished_at_next>>
    /\ UNCHANGED <<batchVars, notSchedVars>>

SchedPaths == 0 .. MaxSchedFiles - 1

\* The buffer health is read from the orchestrator, whose playback position
\* moves with the player's requests: any health at every read.
SchedNext ==
    \/ \E health \in Healths : SchedIterNext(health)
    \/ SchedSend
    \/ \E health \in Healths : SchedReadHealth(health)
    \/ SchedWait
    \/ SchedDrop
    \/ SchedJoin
    \/ CloseAll
    \/ SchedReturn
    \/ \E w \in WorkerIds : WorkerRecv(w)
    \/ \E w \in WorkerIds : WorkerExit(w)
    \/ \E w \in WorkerIds, ok \in BOOLEAN : WorkerDownload(w, ok)
    \/ \E w \in WorkerIds : WorkerWrite(w)
    \/ \E p \in SchedPaths : WriterRecv(p)
    \/ \E p \in SchedPaths : WriterEnd(p)

\* The messages one writer task can find in its channel: any indexes, in
\* any order, the same index more than once.
Messages == UNION {[1 .. n -> 0 .. MaxIndex] : n \in 0 .. MaxMsgs}

\* One ordered_file_writer task on its own: the file holds segment 0, the
\* messages are in the channel and every sender is dropped.
WriterInit ==
    /\ writer \in {[p \in {0} |->
                       [chan |-> msgs, expected |-> 1, pending |-> {},
                        written |-> <<0>>, done |-> FALSE]] : msgs \in Messages}
    /\ max_workers = 0
    /\ sched_pc = "idle"
    /\ to_send = <<>>
    /\ chan = <<>>
    /\ tx_open = FALSE
    /\ bp_limit = 0
    /\ workers = <<>>
    /\ file_segments = <<>>
    /\ notified = {}
    /\ writers_open = FALSE
    /\ download_ok = {}
    /\ unfinished_at_next = 0
    /\ JobIdle
    /\ StreamIdle
    /\ BatchIdle
    /\ NntpIdle
    /\ IngestIdle

WriterNext == \E p \in SchedPaths : WriterRecv(p) \/ WriterEnd(p)

(***************************************************************************)
(* nntp/client.rs, nntp/pool.rs                                            *)
(*                                                                         *)
(* The pool is deadpool's managed pool: a semaphore of max_size permits    *)
(* served in arrival order, and a queue of idle objects; get() takes a     *)
(* permit, then the oldest idle object or, if there is none, a new one     *)
(* from Manager::create; dropping the object puts it back and frees the    *)
(* permit. Every network operation returns, with a result or an error.     *)
(***************************************************************************)

Downloads == 1 .. NDownloads
Warmers == NDownloads + 1 .. NDownloads + MaxConnections
Tasks == Downloads \cup Warmers

\* The tasks that hold a permit of the pool's semaphore.
PermitHolders == {t \in Tasks : task_pc[t] \in {"create", "body", "got"}}

\* The tasks that hold a connection.
Holders(c) == {t \in Tasks : task_conn[t] = c}

PermitFreeAlways == TRUE

\* The semaphore of max_size = max_connections permits has one left.
PermitFree == Cardinality(PermitHolders) < max_connections

GiveUpNever(e) == FALSE

\* ExponentialBackoff::next_backoff is None once the elapsed time has passed
\* max_elapsed_time (30 s).
GiveUp(e) == e >= RetryWindow

\* download: Err(e) => Err(backoff::Error::transient(e)), whatever e is.
IsTransient(err) == TRUE

\* NntpPool::new for a pool of 1 to MaxConnections connections.
NntpInit ==
    /\ max_connections \in 1 .. MaxConnections
    /\ open_conns = {}
    /\ slots = <<>>
    /\ waiters = <<>>
    /\ task_pc = [t \in Tasks |-> IF t \in Downloads THEN "idle" ELSE "unspawned"]
    /\ task_conn = [t \in Tasks |-> 0]
    /\ elapsed = [t \in Tasks |-> 0]
    /\ last_error = [t \in Tasks |-> "none"]
    /\ auth_retried = [t \in Tasks |-> FALSE]
    /\ JobIdle
    /\ StreamIdle
    /\ BatchIdle
    /\ SchedIdle
    /\ IngestIdle

\* NntpClient::download is called: the first attempt asks the pool for a
\* connection.
Download(d) ==
    /\ d \in Downloads
    /\ task_pc[d] = "idle"
    /\ task_pc' = [task_pc EXCEPT ![d] = "wait"]
    /\ waiters' = Append(waiters, d)
    /\ UNCHANGED <<max_connections, open_conns, slots, task_conn, elapsed,
                   last_error, auth_retried>>
    /\ UNCHANGED notNntpVars

\* Pool::get: the oldest waiter takes a permit, and the oldest idle
\* connection if there is one (recycle always succeeds).
Acquire(t) ==
    /\ Len(waiters) > 0
    /\ t = Head(waiters)
    /\ PermitFree
    /\ waiters' = Tail(waiters)
    /\ IF Len(slots) > 0
       THEN /\ task_conn' = [task_conn EXCEPT ![t] = Head(slots)]
            /\ slots' = Tail(slots)
            /\ task_pc' = [task_pc EXCEPT ![t] =
                              IF t \in Downloads THEN "body" ELSE "got"]
       ELSE /\ task_pc' = [task_pc EXCEPT ![t] = "create"]
            /\ UNCHANGED <<task_conn, slots>>
    /\ UNCHANGED <<max_connections, open_conns, elapsed, last_error,
                   auth_retried>>
    /\ UNCHANGED notNntpVars

\* Manager::create: authenticate() gives a new connection, or fails, which
\* create reports as NntpPoolError::Authentication, or takes longer than
\* the create timeout of 5 s. A failed get() is an error of the attempt for
\* a download, and is logged by a warm-up task.
Create(t, outcome) ==
    /\ task_pc[t] = "create"
    /\ IF outcome = "ok"
       THEN LET c == Cardinality(open_conns) + 1 IN
            /\ open_conns' = open_conns \cup {c}
            /\ task_conn' = [task_conn EXCEPT ![t] = c]
            /\ task_pc' = [task_pc EXCEPT ![t] =
                              IF t \in Downloads THEN "body" ELSE "got"]
            /\ UNCHANGED last_error
       ELSE /\ task_pc' = [task_pc EXCEPT ![t] =
                              IF t \in Downloads THEN "failed" ELSE "done"]
            /\ last_error' = [last_error EXCEPT ![t] = outcome]
            /\ UNCHANGED <<open_conns, task_conn>>
    /\ UNCHANGED <<max_connections, slots, waiters, elapsed, auth_retried>>
    /\ UNCHANGED notNntpVars

\* download_segment after get(): body_bytes returns the article or a read
\* error; the connection is dropped, back into the pool, either way.
Body(d, outcome) ==
    /\ task_pc[d] = "body"
    /\ slots' = Append(slots, task_conn[d])
    /\ task_conn' = [task_conn EXCEPT ![d] = 0]
    /\ IF outcome = "ok"
       THEN /\ task_pc' = [task_pc EXCEPT ![d] = "returned_ok"]
            /\ UNCHANGED last_error
       ELSE /\ task_pc' = [task_pc EXCEPT ![d] = "failed"]
            /\ last_error' = [last_error EXCEPT ![d] = outcome]
    /\ UNCHANGED <<max_connections, open_conns, waiters, elapsed, auth_retried>>
    /\ UNCHANGED notNntpVars

\* backoff::future::retry after a failed attempt: a permanent error, or a
\* transient one once the retry window is over, is returned to the caller;
\* otherwise the task sleeps, time passes, and the next attempt starts.
Retry(d) ==
    /\ task_pc[d] = "failed"
    /\ IF ~IsTransient(last_error[d]) \/ GiveUp(elapsed[d])
       THEN /\ task_pc' = [task_pc EXCEPT ![d] = "returned_err"]
            /\ UNCHANGED <<waiters, elapsed, auth_retried>>
       ELSE /\ \E e \in elapsed[d] + 1 .. RetryWindow :
                  elapsed' = [elapsed EXCEPT ![d] = e]
            /\ task_pc' = [task_pc EXCEPT ![d] = "wait"]
            /\ waiters' = Append(waiters, d)
            /\ auth_retried' = [auth_retried EXCEPT ![d] =
                                   @ \/ last_error[d] = "auth"]
    /\ UNCHANGED <<max_connections, open_conns, slots, task_conn, last_error>>
    /\ UNCHANGED notNntpVars

\* warm_pool: one task is spawned for each of the max_connections
\* connections; task i sleeps i * 50 ms first.
WarmPool ==
    /\ \A t \in Warmers : task_pc[t] = "unspawned"
    /\ task_pc' = [t \in Tasks |->
                      IF t \in Warmers /\ t <= NDownloads + max_connections
                      THEN "sleep" ELSE task_pc[t]]
    /\ UNCHANGED <<max_connections, open_conns, slots, waiters, task_conn,
                   elapsed, last_error, auth_retried>>
    /\ UNCHANGED notNntpVars

\* A warm-up task wakes up and calls get().
WarmGet(t) ==
    /\ task_pc[t] = "sleep"
    /\ task_pc' = [task_pc EXCEPT ![t] = "wait"]
    /\ waiters' = Append(waiters, t)
    /\ UNCHANGED <<max_connections, open_conns, slots, task_conn, elapsed,
                   last_error, auth_retried>>
    /\ UNCHANGED notNntpVars

\* A warm-up task: Ok(_) drops the connection it got, back into the pool.
WarmDrop(t) ==
    /\ task_pc[t] = "got"
    /\ slots' = Append(slots, task_conn[t])
    /\ task_conn' = [task_conn EXCEPT ![t] = 0]
    /\ task_pc' = [task_pc EXCEPT ![t] = "done"]
    /\ UNCHANGED <<max_connections, open_conns, waiters, elapsed, last_error,
                   auth_retried>>
    /\ UNCHANGED notNntpVars

CreateOutcomes == {"ok", "auth", "timeout"}
BodyOutcomes == {"ok", "transport"}

\* What the tasks do once download or warm_pool has been called.
NntpStep ==
    \/ \E t \in Tasks : Acquire(t)
    \/ \E t \in Tasks, outcome \in CreateOutcomes : Create(t, outcome)
    \/ \E d \in Downloads, outcome \in BodyOutcomes : Body(d, outcome)
    \/ \E d \in Downloads : Retry(d)
    \/ \E t \in Warmers : WarmGet(t)
    \/ \E t \in Warmers : WarmDrop(t)

NntpNext ==
    \/ \E d \in Downloads : Download(d)
    \/ WarmPool
    \/ NntpStep

\* What the downloads do once called, the pool not being warmed.
DownloadStep ==
    \/ \E d \in Downloads : Acquire(d)
    \/ \E d \in Downloads, outcome \in CreateOutcomes : Create(d, outcome)
    \/ \E d \in Downloads, outcome \in BodyOutcomes : Body(d, outcome)
    \/ \E d \in Downloads : Retry(d)

DownloadNext ==
    \/ \E d \in Downloads : Download(d)
    \/ DownloadStep

(***************************************************************************)
(* archive/rar.rs, archive/par2.rs: volume names, their order, and the     *)
(* download tasks made from the first segments                             *)
(***************************************************************************)
\* The hash16k values of the files of the NZB.
Hashes == 1 .. NHashes

\* A real file name, by its extension: "rar", "par2", or "r" followed by
\* digits.  Volumes are named .rar, .r00, .r01, ...
Format2(n) == <<n \div 10, n % 10>>
NoDigits == <<>>
FileNames ==
    {[ext |-> "rar", digits |-> NoDigits], [ext |-> "par2", digits |-> NoDigits]}
        \cup {[ext |-> "r", digits |-> Format2(n)] : n \in 0 .. MaxPart}

Main == [kind |-> "Main", n |-> 0]
Part(n) == [kind |-> "Part", n |-> n]
NoRarExt == [kind |-> "None", n |-> 0]
RarExts == {Main} \cup {Part(n) : n \in 0 .. MaxPart}

RECURSIVE ParseDigits(_)
\* str::parse::<u32> of a string of ASCII digits (the two digits of a volume
\* name are far from overflowing a u32).
ParseDigits(ds) ==
    IF ds = <<>> THEN 0
    ELSE ParseDigits(SubSeq(ds, 1, Len(ds) - 1)) * 10 + ds[Len(ds)]

\* extract_rar_number: the extension without its 'r', when it is all digits.
extract_rar_number(name) ==
    IF name.ext = "r" /\ name.digits # NoDigits
    THEN Part(ParseDigits(name.digits))
    ELSE NoRarExt

from_filename(name) ==
    IF name.ext = "rar" THEN Main ELSE extract_rar_number(name)

\* Ord::cmp of RarExt compared Main with Part the other way round.
cmpMainLast(a, b) ==
    IF a.kind = "Main" /\ b.kind = "Main" THEN "Equal"
    ELSE IF a.kind = "Main" THEN "Greater"
    ELSE IF b.kind = "Main" THEN "Less"
    ELSE IF a.n < b.n THEN "Less" ELSE IF a.n = b.n THEN "Equal" ELSE "Greater"

\* impl Ord for RarExt
cmp(a, b) ==
    IF a.kind = "Main" /\ b.kind = "Main" THEN "Equal"
    ELSE IF a.kind = "Main" THEN "Less"
    ELSE IF b.kind = "Main" THEN "Greater"
    ELSE IF a.n < b.n THEN "Less" ELSE IF a.n = b.n THEN "Equal" ELSE "Greater"

TaskKey(task) == from_filename(task.path)

RECURSIVE InsertByKey(_, _)
\* t goes behind every task that is not greater: the sort is stable.
InsertByKey(sorted, t) ==
    IF sorted = <<>> THEN <<t>>
    ELSE IF cmp(TaskKey(Head(sorted)), TaskKey(t)) = "Greater" THEN <<t>> \o sorted
    ELSE <<Head(sorted)>> \o InsertByKey(Tail(sorted), t)

\* sorted_by_key left out of create_download_tasks.
Unsorted(ts) == ts

RECURSIVE sorted_by_key(_)
sorted_by_key(ts) ==
    IF ts = <<>> THEN <<>>
    ELSE InsertByKey(sorted_by_key(SubSeq(ts, 1, Len(ts) - 1)), ts[Len(ts)])

Unresolved(i) == first_segments[i] \notin DOMAIN hash_to_real

RECURSIVE TasksOf(_, _)
\* The tasks of the segments at the positions of keep, in download order.
TasksOf(i, keep) ==
    IF i = 0 THEN <<>>
    ELSE TasksOf(i - 1, keep) \o
         (IF i \in keep
          THEN <<[path |-> hash_to_real[first_segments[i]], segment |-> i]>>
          ELSE <<>>)

Positions == 1 .. Len(first_segments)
Resolved == {i \in Positions : ~Unresolved(i)}
NoTasks == [result |-> "start", by |-> "none", tasks |-> <<>>, written |-> {},
            malformed |-> 0]

TasksInit ==
    /\ hash_to_real \in UNION {[D -> FileNames] : D \in SUBSET Hashes}
    /\ \E n \in 0 .. NHashes :
           first_segments \in {s \in [1 .. n -> Hashes] :
                                   \A i, j \in 1 .. n : i # j => s[i] # s[j]}
    /\ tasks_result = NoTasks
    /\ JobIdle
    /\ StreamIdle
    /\ BatchIdle
    /\ SchedIdle
    /\ NntpIdle
    /\ ScanIdle
    /\ RarIdle
    /\ HttpIdle
    /\ YencIdle
    /\ TrackerIdle
    /\ DlqIdle
    /\ CallIdle

\* archive::par2::create_download_tasks.  malformed is the position of a
\* segment whose bytes analyse_rar_buffer rejects, 0 when it accepts them all.
create_download_tasks(malformed) ==
    /\ tasks_result.result = "start"
    /\ LET fails == {i \in Positions : Unresolved(i) \/ i = malformed}
           stop == IF fails = {} THEN Len(first_segments) + 1
                   ELSE CHOOSE i \in fails : \A j \in fails : i <= j
           done == TasksOf(stop - 1, Positions)
           written == {done[k].path : k \in 1 .. Len(done)}
       IN  tasks_result' =
               IF fails # {}
               THEN [result |-> IF Unresolved(stop) THEN "FilenameNotFound"
                                ELSE "MalformedRar",
                     by |-> "archive", tasks |-> <<>>, written |-> written,
                     malformed |-> malformed]
               ELSE IF \E k \in 1 .. Len(done) : TaskKey(done[k]) = NoRarExt
               THEN [result |-> "panic", by |-> "archive", tasks |-> <<>>,
                     written |-> written, malformed |-> malformed]
               ELSE [result |-> "Ok", by |-> "archive", tasks |-> sorted_by_key(done),
                     written |-> written, malformed |-> malformed]
    /\ UNCHANGED <<hash_to_real, first_segments>>
    /\ UNCHANGED notTaskVars

\* par2::manifest: Par2Manifest::create_download_tasks, the earlier form,
\* every rename succeeding.
ManifestCreateDownloadTasks ==
    /\ tasks_result.result = "start"
    /\ LET done == TasksOf(Len(first_segments), Resolved)
           written == {done[k].path : k \in 1 .. Len(done)}
       IN  tasks_result' =
               IF \E k \in 1 .. Len(done) : TaskKey(done[k]) = NoRarExt
               THEN [result |-> "panic", by |-> "manifest", tasks |-> <<>>,
                     written |-> written, malformed |-> 0]
               ELSE [result |-> "Ok", by |-> "manifest", tasks |-> sorted_by_key(done),
                     written |-> written, malformed |-> 0]
    /\ UNCHANGED <<hash_to_real, first_segments>>
    /\ UNCHANGED notTaskVars

TasksNext ==
    \/ \E m \in 0 .. NHashes : m <= Len(first_segments) /\ create_download_tasks(m)
    \/ ManifestCreateDownloadTasks
(***************************************************************************)
(* archive/mod.rs, archive/packet.rs: the PAR2 packet scan                 *)
(*                                                                         *)
(* The buffer is a sequence of cells.  A cell that starts with the packet  *)
(* magic carries what parse_packet reads behind it: the declared length    *)
(* and what the type field and the body parse to.  Lengths are counted in  *)
(* cells; HEADER_SIZE is one cell and the set id and type fields another.  *)
(***************************************************************************)
HEADER_SIZE == 1
TypeFieldsSize == 1

PlainCell == [magic |-> FALSE, pack_len |-> 0, body |-> "None", name |-> 0]
MagicCell(len, body, name) ==
    [magic |-> TRUE, pack_len |-> len, body |-> body, name |-> name]

\* Below HEADER_SIZE + TypeFieldsSize there is no type field to read, so the
\* cells of that length are drawn with one body only.
Cells ==
    {PlainCell}
        \cup {MagicCell(len, "None", 0) : len \in 0 .. MaxPackLen}
        \cup {MagicCell(len, body, 0) :
                  len \in HEADER_SIZE + TypeFieldsSize .. MaxPackLen,
                  body \in {"Main", "IFSC"}}
        \cup {MagicCell(len, "FileDesc", name) :
                  len \in HEADER_SIZE + TypeFieldsSize .. MaxPackLen,
                  name \in 1 .. NNames}

NoPacket == [kind |-> "None", name |-> 0, length |-> 0]

\* parse_packet(&buffer[c..]), c counted from 1.
parse_packet(buffer, c) ==
    LET cell == buffer[c]
        input_len == Len(buffer) - c + 1
    IN  IF ~cell.magic THEN NoPacket
        ELSE IF cell.pack_len < HEADER_SIZE \/ cell.pack_len > input_len
        THEN NoPacket
        ELSE IF cell.pack_len - HEADER_SIZE < TypeFieldsSize THEN NoPacket
        ELSE IF cell.body = "None" THEN NoPacket
        ELSE [kind |-> cell.body, name |-> cell.name, length |-> cell.pack_len]

\* files after the loop of parse_buffer: the names of the FileDesc packets,
\* each with the position of the last packet that carried it.
FilesOf(ps) ==
    LET fds == {k \in 1 .. Len(ps) : ps[k].kind = "FileDesc"}
    IN  [n \in {ps[k].name : k \in fds} |->
            ps[CHOOSE k \in fds :
                   /\ ps[k].name = n
                   /\ \A j \in fds : ps[j].name = n => j <= k].at]

found_main(ps) == \E k \in 1 .. Len(ps) : ps[k].kind = "Main"

\* parse_buffer failing without a Main packet.
ResultNeedsMain(ps) ==
    IF FilesOf(ps) = <<>> \/ ~found_main(ps) THEN "NoFiles" ELSE "Ok"

\* What parse_buffer returns for the packets scanned.
ResultOf(ps) == IF FilesOf(ps) = <<>> THEN "NoFiles" ELSE "Ok"

NoManifest == [result |-> "scanning", files |-> <<>>, warned |-> FALSE]

ScanInit ==
    /\ \E n \in 0 .. MaxBuf : par2_buffer \in [1 .. n -> Cells]
    /\ scan_cursor = 1
    /\ packets = <<>>
    /\ par2_result = NoManifest
    /\ JobIdle
    /\ StreamIdle
    /\ BatchIdle
    /\ SchedIdle
    /\ NntpIdle
    /\ TaskIdle
    /\ RarIdle
    /\ HttpIdle
    /\ YencIdle
    /\ TrackerIdle
    /\ DlqIdle
    /\ CallIdle

\* The while loop skipping the declared length of a packet it rejects.
ScanStepSkipping ==
    /\ par2_result.result = "scanning"
    /\ scan_cursor <= Len(par2_buffer)
    /\ LET p == parse_packet(par2_buffer, scan_cursor)
           declared == par2_buffer[scan_cursor].pack_len
       IN  IF p # NoPacket
           THEN /\ packets' = Append(packets, [kind |-> p.kind, name |-> p.name,
                                               length |-> p.length,
                                               at |-> scan_cursor])
                /\ scan_cursor' = scan_cursor + p.length
           ELSE /\ packets' = packets
                /\ scan_cursor' = scan_cursor + (IF declared > 1 THEN declared ELSE 1)
    /\ UNCHANGED <<par2_buffer, par2_result>>
    /\ UNCHANGED notScanVars

\* One turn of the while loop of scan_for_packets.
ScanStep ==
    /\ par2_result.result = "scanning"
    /\ scan_cursor <= Len(par2_buffer)
    /\ LET p == parse_packet(par2_buffer, scan_cursor)
       IN  IF p # NoPacket
           THEN /\ packets' = Append(packets, [kind |-> p.kind, name |-> p.name,
                                               length |-> p.length,
                                               at |-> scan_cursor])
                /\ scan_cursor' = scan_cursor + p.length
           ELSE /\ packets' = packets
                /\ scan_cursor' = scan_cursor + 1
    /\ UNCHANGED <<par2_buffer, par2_result>>
    /\ UNCHANGED notScanVars

\* The scan is over: parse_buffer builds the manifest and returns.
ParseBufferReturn ==
    /\ par2_result.result = "scanning"
    /\ scan_cursor > Len(par2_buffer)
    /\ par2_result' = [result |-> ResultOf(packets),
                       files |-> FilesOf(packets),
                       warned |-> FilesOf(packets) # <<>> /\ ~found_main(packets)]
    /\ UNCHANGED <<par2_buffer, scan_cursor, packets>>
    /\ UNCHANGED notScanVars

ScanNext ==
    \/ ScanStep
    \/ ParseBufferReturn
(***************************************************************************)
(* archive/rar.rs: analyse_rar_buffer                                      *)
(*                                                                         *)
(* The buffer is a sequence of cells, one cell for every field the         *)
(* analyser reads in one go: the RAR signature, a header's crc, type,      *)
(* flags and size, a file header's pack_size and unpacked size, the MKV    *)
(* signature, and one for any other byte.  Offsets and sizes are counted   *)
(* in cells.                                                               *)
(***************************************************************************)
RAR_SIGNATURE == 82
MKV_SIGNATURE == 26
RAR_MAIN_HEAD == 115
RAR_FILE_HEAD == 116
RAR_ENDARC_HEAD == 123
\* A header type the analyser has no arm for.
RAR_OTHER_HEAD == 122

\* crc, type, flags and size: the 7 bytes every header starts with.
HeaderBase == 4
\* pack_size and unpacked size: the 8 bytes that follow in a file header.
FileFields == 2
\* The 1024 bytes searched for the MKV signature.
SearchWindow == 2

NoHeader == [type |-> 0, size |-> 0, pack_size |-> 0]
MainHeaders ==
    {NoHeader}
        \cup {[type |-> RAR_MAIN_HEAD, size |-> s, pack_size |-> 0] :
                  s \in {0, HeaderBase, HeaderBase + 1}}
SecondHeaders ==
    {NoHeader,
     [type |-> RAR_ENDARC_HEAD, size |-> HeaderBase, pack_size |-> 0],
     [type |-> RAR_OTHER_HEAD, size |-> HeaderBase, pack_size |-> 0]}
        \cup {[type |-> RAR_FILE_HEAD, size |-> s, pack_size |-> p] :
                  s \in {HeaderBase + FileFields, HeaderBase + FileFields + 1},
                  p \in 0 .. MaxPackSize}

\* The payload cells behind the headers: at most one of them the MKV
\* signature.
Payloads ==
    UNION {{c \in [1 .. n -> {0, MKV_SIGNATURE}] :
                Cardinality({i \in 1 .. n : c[i] = MKV_SIGNATURE}) <= 1} :
           n \in 0 .. MaxPayloadCells}

RECURSIVE Zeros(_)
Zeros(n) == IF n <= 0 THEN <<>> ELSE <<0>> \o Zeros(n - 1)

\* The cells of one header: the fields read, then the rest of its size.
HeaderCells(h) ==
    IF h = NoHeader THEN <<>>
    ELSE IF h.type = RAR_FILE_HEAD
    THEN <<0, h.type, 0, h.size, h.pack_size, 0>>
             \o Zeros(h.size - HeaderBase - FileFields)
    ELSE <<0, h.type, 0, h.size>> \o Zeros(h.size - HeaderBase)

\* The volume a shape describes, before it is cut.
VolumeCells(shape) ==
    Zeros(shape.junk)
        \o (IF shape.signed THEN <<RAR_SIGNATURE>> ELSE <<>>)
        \o HeaderCells(shape.main)
        \o HeaderCells(shape.second)
        \o shape.payload

Shapes ==
    [junk : 0 .. MaxJunk, signed : BOOLEAN, main : MainHeaders,
     second : SecondHeaders, payload : Payloads]

\* Where the signature starts, -1 when no window matches.
SignatureAt(buf) ==
    LET hits == {i \in 0 .. Len(buf) - 1 : buf[i + 1] = RAR_SIGNATURE}
    IN  IF hits = {} THEN 0 - 1 ELSE CHOOSE i \in hits : \A j \in hits : i <= j

Analysed(r, offset, length) == [result |-> r, offset |-> offset, length |-> length]

\* The file header arm without the search for the MKV signature.
FileHeadNoSearch(buf, first, data, pack_size) == Analysed("Ok", data, pack_size)

\* The file header arm from data_offset = cursor.stream_position() on.
FileHead(buf, first, data, pack_size) ==
    IF ~first THEN Analysed("Ok", data, pack_size)
    ELSE LET n == Min(SearchWindow, pack_size)
         IN  IF n > 0 /\ data + n > Len(buf) THEN Analysed("Io", 0, 0)
             ELSE LET hits == {k \in 0 .. n - 1 : buf[data + k + 1] = MKV_SIGNATURE}
                  IN  IF hits = {} THEN Analysed("Ok", data, pack_size)
                      ELSE LET k == CHOOSE i \in hits : \A j \in hits : i <= j
                           IN  Analysed("Ok", data + k, pack_size - k)

RECURSIVE WalkHeaders(_, _, _, _)
\* The while loop with the cursor at pos; visited are the positions the loop
\* has started a turn at: it has no other state, so a turn that starts where
\* an earlier one did repeats for ever.
WalkHeaders(buf, first, pos, visited) ==
    IF pos \in visited THEN Analysed("hang", 0, 0)
    ELSE IF pos + 1 > Len(buf) THEN Analysed("Ok", 0, 0)
    ELSE IF pos + HeaderBase > Len(buf) THEN Analysed("Io", 0, 0)
    ELSE LET header_type == buf[pos + 2]
             header_size == buf[pos + 4]
             after == pos + HeaderBase
         IN  IF header_type = RAR_FILE_HEAD
             THEN IF after + FileFields > Len(buf) THEN Analysed("Io", 0, 0)
                  ELSE LET data == after + FileFields
                                       + (header_size - HeaderBase - FileFields)
                       IN  IF data < 0 THEN Analysed("Io", 0, 0)
                           ELSE FileHead(buf, first, data, buf[after + 1])
             ELSE IF header_type = RAR_ENDARC_HEAD THEN Analysed("Ok", 0, 0)
             ELSE LET next == after + (header_size - HeaderBase)
                  IN  IF next < 0 THEN Analysed("Io", 0, 0)
                      ELSE WalkHeaders(buf, first, next, visited \cup {pos})

NotAnalysed == Analysed("start", 0, 0)

RarInit ==
    /\ rar_shape \in Shapes
    /\ \E n \in 0 .. Len(VolumeCells(rar_shape)) :
           rar_buffer = SubSeq(VolumeCells(rar_shape), 1, n)
    /\ is_first \in BOOLEAN
    /\ rar_result = NotAnalysed
    /\ JobIdle
    /\ StreamIdle
    /\ BatchIdle
    /\ SchedIdle
    /\ NntpIdle
    /\ TaskIdle
    /\ ScanIdle
    /\ HttpIdle
    /\ YencIdle
    /\ TrackerIdle
    /\ DlqIdle
    /\ CallIdle

analyse_rar_buffer ==
    /\ rar_result = NotAnalysed
    /\ rar_result' =
           IF SignatureAt(rar_buffer) < 0 THEN Analysed("MalformedRar", 0, 0)
           ELSE WalkHeaders(rar_buffer, is_first, SignatureAt(rar_buffer) + 1, {})
    /\ UNCHANGED <<rar_shape, rar_buffer, is_first>>
    /\ UNCHANGED notRarVars

RarNext == analyse_rar_buffer
(***************************************************************************)
(* main.rs, session/mod.rs, streaming.rs, http/range.rs: the stream route, *)
(* followed up to the answer to one request                                *)
(***************************************************************************)
SessionIds == 1 .. NSessions

Session(ready, rar, mapped, downloaded, len) ==
    [stream_ready |-> ready, has_rar |-> rar, mapped |-> mapped,
     downloaded |-> downloaded, mkv_len |-> len]

\* Session::new: nothing is ready.
NewSession == Session(FALSE, FALSE, FALSE, FALSE, 0)

\* What the background processing can make of a session: ready without a
\* RAR file, ready with a RAR file whose name is not mapped, and ready with
\* mkv_len bytes to extract from the segments downloaded so far.
ProcessedSessions ==
    {Session(TRUE, FALSE, FALSE, FALSE, 0),
     Session(TRUE, TRUE, FALSE, FALSE, 0),
     Session(TRUE, TRUE, TRUE, FALSE, 0)}
        \cup {Session(TRUE, TRUE, TRUE, TRUE, n) : n \in 0 .. MaxAvail}

\* create_mock_mkv_data: what is served when no segment is downloaded.
MockMkvLen == MaxAvail + 1

\* A Range header: absent, malformed, or bytes=start-end with either side
\* possibly empty (-1).
Empty == 0 - 1
NoRange == [present |-> FALSE, wellformed |-> FALSE, start |-> Empty, end |-> Empty]
BadRange == [present |-> TRUE, wellformed |-> FALSE, start |-> Empty, end |-> Empty]
RangeHeaders ==
    {NoRange, BadRange}
        \cup {[present |-> TRUE, wellformed |-> TRUE, start |-> a, end |-> b] :
                  a \in Empty .. MaxRangePos, b \in Empty .. MaxRangePos}

OK == 200
ACCEPTED == 202
PARTIAL_CONTENT == 206
BAD_REQUEST == 400
RANGE_NOT_SATISFIABLE == 416
INTERNAL_SERVER_ERROR == 500
NOT_FOUND == 404
\* The handler panicked: the connection is closed without a response.
Panicked == 0

Response(via, status, data_len, total) ==
    [via |-> via, status |-> status, retry_after |-> FALSE,
     data_len |-> data_len, total |-> total]
NoResponse == Response("none", 0, 0, Empty)
\* No request has been answered yet.
Unanswered == http_response = NoResponse

\* stream_handler's answer to an error of handle_stream_request.
StreamingError == Response("stream", INTERNAL_SERVER_ERROR, 0, Empty)

\* An unknown session answered like a failed stream request.
SessionNotFoundAsError == StreamingError

\* stream_handler's answer to an error of get_session.
SessionNotFound == Response("stream", NOT_FOUND, 0, Empty)

\* SessionManager::get_session: Ok or SessionNotFound.
get_session(id) == id \in DOMAIN sessions

\* StreamManager::parse_range_header, u64::MAX written Empty.
StreamRange(h) ==
    [start |-> IF h.start = Empty THEN 0 ELSE h.start, end |-> h.end]

\* get_data_for_range and the answer handle_range_request makes of it.
RangeResponse(h, total, checks) ==
    LET r == StreamRange(h)
        start == Min(r.start, total)
    IN  IF total = 0 /\ checks THEN Response("stream", Panicked, 0, total)
        ELSE IF start >= total
        THEN Response("stream", RANGE_NOT_SATISFIABLE, 0, total)
        ELSE LET end == IF r.end = Empty THEN total - 1 ELSE Min(r.end, total - 1)
             IN  IF start > end + 1 THEN Response("stream", Panicked, 0, total)
                 ELSE IF start = end + 1
                 THEN Response("stream", RANGE_NOT_SATISFIABLE, 0, total)
                 ELSE Response("stream", PARTIAL_CONTENT, end - start + 1, total)

\* StreamManager::handle_stream_request and what stream_handler makes of
\* its errors.
handle_stream_request(s, h, checks) ==
    IF ~s.stream_ready THEN Response("stream", ACCEPTED, 0, Empty)
    ELSE IF ~s.has_rar THEN Response("stream", NOT_FOUND, 0, Empty)
    ELSE IF ~h.present THEN Response("stream", OK, 0, Empty)
    ELSE IF ~h.wellformed THEN StreamingError
    ELSE IF ~s.mapped THEN StreamingError
    ELSE RangeResponse(h, IF s.downloaded THEN s.mkv_len ELSE MockMkvLen, checks)

HttpInit ==
    /\ sessions = <<>>
    /\ http_request = [id |-> 0, header |-> NoRange]
    /\ http_response = NoResponse
    /\ JobIdle
    /\ StreamIdle
    /\ BatchIdle
    /\ SchedIdle
    /\ NntpIdle
    /\ TaskIdle
    /\ ScanIdle
    /\ RarIdle
    /\ YencIdle
    /\ TrackerIdle
    /\ DlqIdle
    /\ CallIdle

\* SessionManager::create_session, the id a fresh one.
create_session(id) ==
    /\ Unanswered
    /\ id \notin DOMAIN sessions
    /\ sessions' = [i \in DOMAIN sessions \cup {id} |->
                        IF i = id THEN NewSession ELSE sessions[i]]
    /\ UNCHANGED <<http_request, http_response>>
    /\ UNCHANGED notHttpVars

\* The session's background processing getting somewhere.
process_session(id, s) ==
    /\ Unanswered
    /\ id \in DOMAIN sessions
    /\ sessions[id] # s
    /\ sessions' = [sessions EXCEPT ![id] = s]
    /\ UNCHANGED <<http_request, http_response>>
    /\ UNCHANGED notHttpVars

\* SessionManager::cleanup_sessions: the sessions of expired are too old.
cleanup_sessions(expired) ==
    /\ Unanswered
    /\ expired # {}
    /\ expired \subseteq DOMAIN sessions
    /\ sessions' = [i \in DOMAIN sessions \ expired |-> sessions[i]]
    /\ UNCHANGED <<http_request, http_response>>
    /\ UNCHANGED notHttpVars

\* stream_handler: GET /stream/{id}; checks tells whether the build panics
\* on arithmetic overflow.
stream_handler(id, h, checks) ==
    /\ Unanswered
    /\ http_request' = [id |-> id, header |-> h]
    /\ http_response' =
           IF get_session(id)
           THEN handle_stream_request(sessions[id], h, checks)
           ELSE SessionNotFound
    /\ UNCHANGED sessions
    /\ UNCHANGED notHttpVars

\* RangeRequest::parse_range_header, "Validate range", with the bounds
\* themselves let through.
SatisfiableUpToLength(start, end, content_length) ==
    /\ ~(start > content_length)
    /\ ~(end # Empty /\ (end > content_length \/ start > end))

\* RangeRequest::parse_range_header, "Validate range".
Satisfiable(start, end, content_length) ==
    /\ ~(start >= content_length)
    /\ ~(end # Empty /\ (end >= content_length \/ start > end))

\* What RangeRequest::parse_range_header returns: Ok(None), Ok(Some(range))
\* or Err(status).
RangeResult(range, status, start, end, content_length) ==
    [via |-> "range", range |-> range, status |-> status, retry_after |-> FALSE,
     data_len |-> IF range = "Some"
                  THEN (IF end = Empty THEN content_length - 1 ELSE end) - start + 1
                  ELSE 0,
     total |-> content_length, start |-> start, end |-> end]

\* RangeRequest::parse_range_header(headers, content_length)
parse_range_header(h, content_length) ==
    /\ Unanswered
    /\ http_request' = [id |-> 0, header |-> h]
    /\ http_response' =
           IF ~h.present THEN RangeResult("None", 0, Empty, Empty, content_length)
           ELSE IF ~h.wellformed
           THEN RangeResult("Err", BAD_REQUEST, Empty, Empty, content_length)
           ELSE IF h.start = Empty /\ h.end = Empty
           THEN RangeResult("Err", BAD_REQUEST, Empty, Empty, content_length)
           ELSE LET start == IF h.start = Empty
                             THEN SaturatingSub(content_length, h.end)
                             ELSE h.start
                    end == IF h.start = Empty THEN Empty ELSE h.end
                IN  IF Satisfiable(start, end, content_length)
                    THEN RangeResult("Some", 0, start, end, content_length)
                    ELSE RangeResult("Err", RANGE_NOT_SATISFIABLE, Empty, Empty,
                                     content_length)
    /\ UNCHANGED sessions
    /\ UNCHANGED notHttpVars

HttpNext ==
    \/ \E id \in SessionIds : create_session(id)
    \/ \E id \in SessionIds, s \in ProcessedSessions : process_session(id, s)
    \/ \E expired \in SUBSET SessionIds : cleanup_sessions(expired)
    \/ \E id \in SessionIds, h \in RangeHeaders, checks \in BOOLEAN :
           stream_handler(id, h, checks)
    \/ \E h \in RangeHeaders, n \in 0 .. MaxAvail : parse_range_header(h, n)

\* ---------------------------------------------------------------------
\* nntp/yenc.rs, nntp/simple.rs: the yEnc layer of an article body.
\* An article is a sequence of bytes. The text of a marker line
\* ("=ybegin line=.. size=.. name=..", "=ypart ..", "=yend size=..") is
\* ASCII and is kept as one cell, numbered above the byte values.

Bytes == 0..255

YBEGIN == 256
YPART == 257
YEND == 258
Markers == {YBEGIN, YPART, YEND}

CR == 13
LF == 10
ESCAPE == 61

\* The byte strings that are posted.
ByteStrings == UNION {[1..n -> Bytes] : n \in 0..MaxYencLen}

\* The encoded values that may not appear as themselves in a line.
Critical == {0, LF, CR, ESCAPE}

\* The encoding of one byte: the inverse of the two decoding rules.
EncodeByte(b) ==
    LET e == (b + 42) % 256
    IN  IF e \in Critical THEN <<ESCAPE, (e + 64) % 256>> ELSE <<e>>

\* The data lines: at least YencLine characters a line, an escape
\* pair never split, every line ended by CR LF.
RECURSIVE EncodeData(_, _)
EncodeData(bs, col) ==
    IF bs = <<>> THEN (IF col > 0 THEN <<CR, LF>> ELSE <<>>)
    ELSE LET c == EncodeByte(Head(bs))
         IN  IF col + Len(c) >= YencLine
             THEN c \o <<CR, LF>> \o EncodeData(Tail(bs), 0)
             ELSE c \o EncodeData(Tail(bs), col + Len(c))

\* The article body of a byte string, as a single part or as one part
\* of several.
encode(bs, multipart) ==
    <<YBEGIN, CR, LF>>
        \o (IF multipart THEN <<YPART, CR, LF>> ELSE <<>>)
        \o EncodeData(bs, 0)
        \o <<YEND, CR, LF>>

Continuation(b) == b \in 128..191

\* std::str::from_utf8: the number of cells of the well-formed UTF-8
\* sequence at the head of data, 0 when there is none.
Utf8SequenceLen(data) ==
    LET b == data[1]
        at(i) == IF i <= Len(data) THEN data[i] ELSE 0
    IN  IF b < 128 \/ b \in Markers THEN 1
        ELSE IF b \in 194..223 THEN (IF Continuation(at(2)) THEN 2 ELSE 0)
        ELSE IF b \in 224..239
             THEN IF /\ Continuation(at(2))
                     /\ Continuation(at(3))
                     /\ (b = 224 => at(2) >= 160)
                     /\ (b = 237 => at(2) <= 159)
                  THEN 3 ELSE 0
        ELSE IF b \in 240..244
             THEN IF /\ Continuation(at(2))
                     /\ Continuation(at(3))
                     /\ Continuation(at(4))
                     /\ (b = 240 => at(2) >= 144)
                     /\ (b = 244 => at(2) <= 143)
                  THEN 4 ELSE 0
        ELSE 0

RECURSIVE from_utf8(_)
from_utf8(data) ==
    IF data = <<>> THEN TRUE
    ELSE LET n == Utf8SequenceLen(data)
         IN  n > 0 /\ from_utf8(SubSeq(data, n + 1, Len(data)))

\* str::lines: the lines of a text, split at LF, without the CR before
\* it; an empty last line is not a line.
StripCR(line) ==
    IF line # <<>> /\ line[Len(line)] = CR
    THEN SubSeq(line, 1, Len(line) - 1) ELSE line

RECURSIVE lines(_, _)
lines(text, cur) ==
    IF text = <<>> THEN (IF cur = <<>> THEN <<>> ELSE <<StripCR(cur)>>)
    ELSE IF Head(text) = LF
         THEN <<StripCR(cur)>> \o lines(Tail(text), <<>>)
         ELSE lines(Tail(text), Append(cur, Head(text)))

starts_with(line, marker) == line # <<>> /\ line[1] = marker

\* Iterator::position: the first line that starts with marker, 0 when
\* there is none.
position(ls, marker) ==
    IF \E i \in 1..Len(ls) : starts_with(ls[i], marker)
    THEN CHOOSE i \in 1..Len(ls) :
             /\ starts_with(ls[i], marker)
             /\ \A j \in 1..(i - 1) : ~starts_with(ls[j], marker)
    ELSE 0

\* The loop over the bytes of one line: the bytes decoded so far and
\* whether the last byte was an unescaped "=".
RECURSIVE DecodeLine(_, _)
DecodeLine(line, st) ==
    IF line = <<>> THEN st
    ELSE LET byte == Head(line)
         IN  IF byte = ESCAPE /\ ~st.is_escaped
             THEN DecodeLine(Tail(line), [st EXCEPT !.is_escaped = TRUE])
             ELSE IF byte \in {CR, LF} THEN DecodeLine(Tail(line), st)
             ELSE DecodeLine(Tail(line),
                      [decoded |-> Append(st.decoded,
                                      IF st.is_escaped
                                      THEN (byte + 65536 - 64 - 42) % 256
                                      ELSE (byte + 65536 - 42) % 256),
                       is_escaped |-> FALSE])

RECURSIVE DecodeLines(_, _)
DecodeLines(ls, st) ==
    IF ls = <<>> THEN st
    ELSE IF starts_with(Head(ls), YPART) THEN DecodeLines(Tail(ls), st)
    ELSE DecodeLines(Tail(ls), DecodeLine(Head(ls), st))

YencOk(bs) == [kind |-> "Ok", bytes |-> bs]
YencDecoding == [kind |-> "YencDecoding", bytes |-> <<>>]
NotDecoded == [kind |-> "none", bytes |-> <<>>]

\* YencDecoder::decode_str.
decode_str(text) ==
    LET ls == lines(text, <<>>)
        begin_idx == position(ls, YBEGIN)
        end_idx == position(ls, YEND)
    IN  IF begin_idx = 0 \/ end_idx = 0 THEN YencDecoding
        ELSE IF begin_idx >= end_idx THEN YencDecoding
        ELSE YencOk(DecodeLines(SubSeq(ls, begin_idx + 1, end_idx - 1),
                        [decoded |-> <<>>, is_escaped |-> FALSE]).decoded)

\* YencDecoder::decode.
decode(data) == IF from_utf8(data) THEN decode_str(data) ELSE YencDecoding

\* simple.rs: the line ending of a line that still has its LF.
trim_line_endings(line) ==
    LET n == Len(line)
    IN  IF n >= 2 /\ line[n - 1] = CR /\ line[n] = LF THEN SubSeq(line, 1, n - 2)
        ELSE IF n >= 1 /\ line[n] = LF THEN SubSeq(line, 1, n - 1)
        ELSE line

\* slice::split at LF: the pieces between the LFs, every piece without
\* its LF, the piece behind the last LF included.
RECURSIVE split(_, _)
split(data, cur) ==
    IF data = <<>> THEN <<cur>>
    ELSE IF Head(data) = LF THEN <<cur>> \o split(Tail(data), <<>>)
    ELSE split(Tail(data), Append(cur, Head(data)))

RECURSIVE ExtractLines(_, _)
ExtractLines(ls, in_body) ==
    IF ls = <<>> THEN <<>>
    ELSE LET line == Head(ls)
         IN  IF starts_with(line, YBEGIN) \/ starts_with(line, YPART)
             THEN ExtractLines(Tail(ls), TRUE)
             ELSE IF starts_with(line, YEND) THEN ExtractLines(Tail(ls), FALSE)
             ELSE IF in_body
                  THEN trim_line_endings(line) \o ExtractLines(Tail(ls), TRUE)
                  ELSE ExtractLines(Tail(ls), FALSE)

\* simple.rs extract_yenc_data.
extract_yenc_data(article) == ExtractLines(split(article, <<>>), FALSE)

YencInit ==
    /\ yenc_bytes \in ByteStrings
    /\ yenc_article = <<>>
    /\ yenc_result = NotDecoded
    /\ JobIdle
    /\ StreamIdle
    /\ BatchIdle
    /\ SchedIdle
    /\ NntpIdle
    /\ TaskIdle
    /\ ScanIdle
    /\ RarIdle
    /\ HttpIdle
    /\ TrackerIdle
    /\ DlqIdle
    /\ CallIdle

\* The poster encodes the bytes into an article body.
Post(multipart) ==
    /\ yenc_article = <<>>
    /\ yenc_article' = encode(yenc_bytes, multipart)
    /\ UNCHANGED <<yenc_bytes, yenc_result>>
    /\ UNCHANGED notYencVars

\* YencDecoder::decode on the body of the article.
Decode ==
    /\ yenc_article # <<>>
    /\ yenc_result = NotDecoded
    /\ yenc_result' = decode(yenc_article)
    /\ UNCHANGED <<yenc_bytes, yenc_article>>
    /\ UNCHANGED notYencVars

\* SimpleNntpClient: the body of the article through extract_yenc_data.
Extract ==
    /\ yenc_article # <<>>
    /\ yenc_result = NotDecoded
    /\ yenc_result' = [kind |-> "extracted", bytes |-> extract_yenc_data(yenc_article)]
    /\ UNCHANGED <<yenc_bytes, yenc_article>>
    /\ UNCHANGED notYencVars

YencNext ==
    \/ \E multipart \in BOOLEAN : Post(multipart)
    \/ Decode
    \/ Extract

(***************************************************************************)
(* stream/segment_tracker.rs                                               *)
(***************************************************************************)

GlobalIndexes == 0 .. MaxGlobal

\* SegmentTracker::new
NewTracker ==
    [segments |-> {}, playback_segment |-> 0, available_segment |-> 0,
     total_segments |-> 0]

\* The loop of mark_segment_complete: the first index from n on that is
\* not a key of the map of registered segments.
RECURSIVE ExtendOverRegistered(_, _)
ExtendOverRegistered(registered, n) ==
    IF n \in registered THEN ExtendOverRegistered(registered, n + 1) ELSE n

TrackerInit ==
    /\ tracker = NewTracker
    /\ marked = {}
    /\ JobIdle
    /\ StreamIdle
    /\ BatchIdle
    /\ SchedIdle
    /\ NntpIdle
    /\ TaskIdle
    /\ ScanIdle
    /\ RarIdle
    /\ HttpIdle
    /\ YencIdle
    /\ DlqIdle
    /\ CallIdle

\* SegmentTracker::register_segment
register_segment(global_index) ==
    /\ tracker' = [tracker EXCEPT
                      !.segments = @ \cup {global_index},
                      !.total_segments = Max(@, global_index + 1)]
    /\ UNCHANGED marked
    /\ UNCHANGED notTrackerVars

\* SegmentTracker::mark_segment_complete
mark_segment_complete(global_index) ==
    /\ tracker' =
          IF global_index = tracker.available_segment
          THEN [tracker EXCEPT !.available_segment =
                    ExtendOverRegistered(tracker.segments, global_index + 1)]
          ELSE tracker
    /\ marked' = marked \cup {global_index}
    /\ UNCHANGED notTrackerVars

TrackerNext ==
    \/ \E g \in GlobalIndexes : register_segment(g)
    \/ \E g \in GlobalIndexes : mark_segment_complete(g)

(***************************************************************************)
(* session/mod.rs: the download queue of a session                         *)
(***************************************************************************)

\* A DownloadTask: the place it was queued at, and its priority.
QueuedTask(id, priority) == [id |-> id, priority |-> priority]
NoTask == [id |-> 0, priority |-> 0]

RECURSIVE InsertDescending(_, _)
\* t put behind the tasks of s that do not compare greater under
\* |a, b| b.priority().cmp(&a.priority()): s stays sorted, equal ones in
\* their order.
InsertDescending(s, t) ==
    IF s = <<>> THEN <<t>>
    ELSE IF Head(s).priority >= t.priority
         THEN <<Head(s)>> \o InsertDescending(Tail(s), t)
         ELSE <<t>> \o s

RECURSIVE sort_by(_)
\* tasks.sort_by(|a, b| b.priority().cmp(&a.priority())), a stable sort.
sort_by(tasks) ==
    IF tasks = <<>> THEN <<>>
    ELSE InsertDescending(sort_by(SubSeq(tasks, 1, Len(tasks) - 1)),
                          tasks[Len(tasks)])

\* Vec::pop: the last element.
pop(tasks) == tasks[Len(tasks)]

\* What is left of tasks without the element pop returned.
Remaining(tasks) ==
    LET t == pop(tasks)
        k == CHOOSE i \in 1 .. Len(tasks) : tasks[i] = t
    IN  SubSeq(tasks, 1, k - 1) \o SubSeq(tasks, k + 1, Len(tasks))

\* A queue as queue_par2_downloads and queue_priority_download fill it:
\* up to MaxQueue tasks, each with a priority.
DlqInit ==
    /\ \E n \in 0 .. MaxQueue :
          \E prio \in [1 .. n -> 1 .. MaxPriority] :
              download_queue = [i \in 1 .. n |-> QueuedTask(i, prio[i])]
    /\ next_task = NoTask
    /\ JobIdle
    /\ StreamIdle
    /\ BatchIdle
    /\ SchedIdle
    /\ NntpIdle
    /\ TaskIdle
    /\ ScanIdle
    /\ RarIdle
    /\ HttpIdle
    /\ YencIdle
    /\ TrackerIdle
    /\ CallIdle

\* Session::get_next_download_task
get_next_download_task ==
    /\ LET tasks == sort_by(download_queue) IN
       IF tasks # <<>>
       THEN /\ next_task' = pop(tasks)
            /\ download_queue' = Remaining(tasks)
       ELSE /\ next_task' = NoTask
            /\ download_queue' = <<>>
    /\ UNCHANGED notDlqVars

DlqNext == get_next_download_task

(***************************************************************************)
(* stream/orchestrator.rs: calls of mark_file_complete that overlap. The   *)
(* workers are tasks of a multi-threaded runtime, and each calls           *)
(* mark_file_complete for the file it has finished.                        *)
(***************************************************************************)

\* What the call's actions leave alone.
notCallVars == <<jobVars, batchVars, schedVars, nntpVars, taskVars, scanVars,
                 rarVars, httpVars, yencVars, trackerVars, dlqVars>>

NotStarted == [pc |-> "start", continuous_files |-> <<>>]

RaceInit ==
    /\ \E n \in 1 .. MaxFiles :
          /\ OrchNew(n)
          /\ volumes \in [0 .. n - 1 -> RarVolumes]
          /\ mark_calls = [f \in 0 .. n - 1 |-> NotStarted]
    /\ VfsIdle
    /\ JobIdle
    /\ BatchIdle
    /\ SchedIdle
    /\ NntpIdle
    /\ TaskIdle
    /\ ScanIdle
    /\ RarIdle
    /\ HttpIdle
    /\ YencIdle
    /\ TrackerIdle
    /\ DlqIdle

\* mark_file_complete(f) up to the call of rebuild_layout_if_continuous:
\* the volume is analysed, the file state altered, complete_files counted.
CallAlter(f) ==
    /\ mark_calls[f].pc = "start"
    /\ LET vol == AnalyseRarVolume(f) IN
       files' = [files EXCEPT ![f] =
                    [@ EXCEPT !.is_complete = TRUE,
                              !.rar_start = vol.start,
                              !.rar_length = vol.length]]
    /\ complete_files' = complete_files + 1
    /\ mark_calls' = [mark_calls EXCEPT ![f].pc = "rebuild"]
    /\ UNCHANGED <<total_files, volumes, layout, available_bytes,
                   playback_position, playback_byte, segments, stream_out,
                   overflow_checks>>
    /\ UNCHANGED notCallVars

\* rebuild_layout_if_continuous: the file states are read and the
\* continuous files taken; the call returns when there are none.
CallSnapshot(f) ==
    /\ mark_calls[f].pc = "rebuild"
    /\ LET cont == ContinuousFiles(files) IN
       mark_calls' = [mark_calls EXCEPT ![f] =
                         [pc |-> IF Len(cont) = 0 THEN "returned" ELSE "store",
                          continuous_files |-> cont]]
    /\ UNCHANGED streamVars
    /\ UNCHANGED notCallVars

\* rebuild_layout_if_continuous: self.available_bytes.store(virtual_offset)
CallStoreAvailable(f) ==
    /\ mark_calls[f].pc = "store"
    /\ LET cont == mark_calls[f].continuous_files IN
       available_bytes' = RarLengthSum(cont, Len(cont))
    /\ mark_calls' = [mark_calls EXCEPT ![f].pc = "layout"]
    /\ UNCHANGED <<total_files, volumes, files, layout, complete_files,
                   playback_position, playback_byte, segments, stream_out,
                   overflow_checks>>
    /\ UNCHANGED notCallVars

\* rebuild_layout_if_continuous: *self.layout.write().await = new_layout,
\* and mark_file_complete returns.
CallWriteLayout(f) ==
    /\ mark_calls[f].pc = "layout"
    /\ layout' = NewLayout(mark_calls[f].continuous_files)
    /\ mark_calls' = [mark_calls EXCEPT ![f].pc = "returned"]
    /\ UNCHANGED <<total_files, volumes, files, complete_files, available_bytes,
                   playback_position, playback_byte, segments, stream_out,
                   overflow_checks>>
    /\ UNCHANGED notCallVars

RaceNext ==
    \E f \in FileIds :
        \/ CallAlter(f)
        \/ CallSnapshot(f)
        \/ CallStoreAvailable(f)
        \/ CallWriteLayout(f)

vars == <<jobVars, streamVars, batchVars, schedVars, nntpVars, ingestVars>>

SpecJob == JobInit /\ [][JobNext]_vars
SpecOneJob == JobInit /\ [][OneJobNext]_vars
SpecBatch == BatchInit /\ [][BatchNext]_vars
SpecSched == SchedInit /\ [][SchedNext]_vars
SpecStream == StreamInit /\ [][StreamNext]_vars
SpecVfs == VfsInit /\ [][VfsNext]_vars
SpecHealth == HealthInit /\ [][HealthNext]_vars
SpecBuffering == BufferingInit /\ [][BufferingNext]_vars
SpecNntp == NntpInit /\ [][NntpNext]_vars
SpecDownload == NntpInit /\ [][DownloadNext]_vars
\* The runtime keeps running the tasks that can take a step.
SpecDownloadFair == SpecDownload /\ WF_vars(DownloadStep)
SpecTasks == TasksInit /\ [][TasksNext]_vars
SpecScan == ScanInit /\ [][ScanNext]_vars
SpecScanFair == SpecScan /\ WF_vars(ScanNext)
SpecRar == RarInit /\ [][RarNext]_vars
SpecHttp == HttpInit /\ [][HttpNext]_vars
SpecYenc == YencInit /\ [][YencNext]_vars
SpecWriter == WriterInit /\ [][WriterNext]_vars
SpecTracker == TrackerInit /\ [][TrackerNext]_vars
SpecDlq == DlqInit /\ [][DlqNext]_vars
SpecRace == RaceInit /\ [][RaceNext]_vars

(***************************************************************************)
(* Properties: scheduler/job_processor.rs                                  *)
(***************************************************************************)

\* The bytes of the map that entry e of a job's log wrote.
EntryBytes(e) ==
    IF e.ok THEN {b \in 0 .. MmapLen - 1 : b >= e.offset /\ b < e.offset + e.len}
    ELSE {}

\* Every byte of the map that job k has written so far.
BytesWritten(k) ==
    UNION {EntryBytes(job_log[k][i]) : i \in 1 .. Len(job_log[k])}

\* C1: every byte that process_job writes for job k lands inside
\* [O_k, O_k + payload_length[k]), whatever the download outcomes are.
C1_WritesInsideJobRange ==
    \A k \in Jobs : \A b \in BytesWritten(k) :
        b >= JobOffset(k) /\ b < JobOffset(k) + payload_length[k]

\* C2: no byte of the buffer is written by two different jobs.
C2_JobsWriteDisjointRanges ==
    \A j, k \in Jobs : j # k => BytesWritten(j) \cap BytesWritten(k) = {}

\* C3: within one job the segments are written in ordinal order, whatever
\* order the downloads finish in, at a cursor that starts at the job's offset,
\* never decreases and advances by exactly the decoded length of each written
\* segment.
C3_OrderedMonotoneCursor ==
    \A k \in Jobs :
        LET log == job_log[k]
            end(e) == e.offset + (IF e.ok THEN e.len ELSE 0)
        IN  /\ \A i \in 1 .. Len(log) - 1 :
                  /\ log[i].seg < log[i + 1].seg
                  /\ log[i + 1].offset = end(log[i])
                  /\ log[i + 1].offset >= log[i].offset
            /\ Len(log) > 0 => log[1].offset = JobOffset(k)
            /\ write_offset[k] =
                  IF Len(log) = 0 THEN JobOffset(k) ELSE end(log[Len(log)])

\* C3 witness: a job whose downloads finished out of order has written all of
\* its segments.
C3_Witness ==
    \E k \in Jobs :
        /\ overtaken[k]
        /\ Len(job_log[k]) = NSegs
        /\ \A i \in 1 .. NSegs : job_log[k][i].ok

\* C4: when a segment of a job has failed, the job reports an error and the
\* place the failed segment would have been written at stays a hole: no other
\* segment of the job is written over it.
C4_FailedSegmentFailsJobAndLeavesHole ==
    \A k \in Jobs :
        LET log == job_log[k] IN
        (job_result[k] # "running" /\ \E i \in 1 .. Len(log) : ~log[i].ok)
            => /\ job_result[k] = "Err"
               /\ \A i, j \in 1 .. Len(log) :
                     (i < j /\ ~log[i].ok) => log[i].offset \notin EntryBytes(log[j])

(***************************************************************************)
(* Properties: stream/orchestrator.rs, stream/virtual_file_streamer.rs     *)
(***************************************************************************)

\* The volumes before index n are all complete, by the predicate done.
PrefixDone(done(_), n) == \A i \in 0 .. n - 1 : done(i)

\* The length of the longest prefix of volumes, in task order, all complete.
LongestPrefix(done(_)) ==
    CHOOSE n \in 0 .. total_files :
        /\ PrefixDone(done, n)
        /\ n < total_files => ~done(n)

RECURSIVE PayloadBefore(_)
\* The total payload length of the volumes before index n.
PayloadBefore(n) ==
    IF n = 0 THEN 0 ELSE PayloadBefore(n - 1) + volumes[n - 1].length

OrchDone(i) == files[i].is_complete
VfsDone(i) == segments[i + 1].is_complete

StreamByte(v) ==
    LET f == CHOOSE g \in FileIds :
                 PayloadBefore(g) <= v /\ v < PayloadBefore(g + 1)
    IN  <<f, volumes[f].start + (v - PayloadBefore(f))>>

RECURSIVE Flatten(_)
Flatten(chunks) ==
    IF Len(chunks) = 0 THEN <<>> ELSE Head(chunks) \o Flatten(Tail(chunks))

\* What a read of (start, length) is to yield when `available` bytes are there.
ExpectedBytes(start, length, available) ==
    LET stop == Min(start + length, available) IN
    IF stop <= start THEN <<>>
    ELSE [i \in 1 .. stop - start |-> StreamByte(start + i - 1)]

\* C6: a stream for (start, length) yields exactly the bytes of
\* [start, min(start + length, available)) and ends, without error or panic;
\* in particular it is empty when start >= available.
C6_StreamYieldsExactlyAvailableRange ==
    stream_out.polled =>
        /\ ~stream_out.panicked
        /\ Flatten(stream_out.chunks) =
              ExpectedBytes(stream_out.start, stream_out.length,
                            PayloadBefore(LongestPrefix(VfsDone)))

\* The bytes buffered ahead of the playback position, and those remaining.
BytesAhead == SaturatingSub(available_bytes, playback_byte)
BytesRemaining == SaturatingSub(PayloadBefore(total_files), playback_byte)

FilesAhead ==
    SaturatingSub(Cardinality({f \in FileIds : files[f].is_complete}),
                  playback_byte \div PlaybackFileBytes)

HealthRank(health) ==
    IF health = "Critical" THEN 0
    ELSE IF health = "Poor" THEN 1
    ELSE IF health = "Good" THEN 2
    ELSE 3

\* C11: in every step that leaves the playback position where it is, the
\* reported buffer health stays at its level or moves to a higher one.
C11_HealthNeverDropsAtFixedPlayback ==
    [][playback_position' = playback_position =>
          HealthRank(GetBufferHealth') >= HealthRank(GetBufferHealth)]_vars

\* C11 witness: with the player at the start of the stream the sixth volume
\* has completed, the health having moved from Poor to Good.
C11_Witness ==
    /\ playback_byte = 0
    /\ complete_files = 6
    /\ GetBufferHealth = "Good"

\* C12: with the playback position at the start of the stream, the health is
\* Excellent at the latest when every volume of the session is complete.
C12_AllCompleteIsExcellent ==
    (playback_byte = 0 /\ \A f \in FileIds : files[f].is_complete) =>
        GetBufferHealth = "Excellent"

(***************************************************************************)
(* Properties: scheduler/batch.rs                                          *)
(***************************************************************************)

\* The jobs yielded so far that belong to the file `path`, in order.
YieldedOf(path) == SelectSeq(yielded, LAMBDA j : j.path = path)

\* The paths of the files a batch draws jobs from.
BatchPaths(batch) == {batch.jobs[k].path : k \in 1 .. Len(batch.jobs)}

\* C13: a batch yielded for Critical health holds jobs of exactly one file, the
\* first in task order with unclaimed segments (every file before it is
\* exhausted), at most wave_size = max_workers of them, and they are that
\* file's next unclaimed segments in segment order.
C13_CriticalTakesFirstUnclaimedVolume ==
    (last_batch.result = "Some" /\ last_batch.health = "Critical") =>
        LET jobs == last_batch.jobs
            p == jobs[1].path
            mine == YieldedOf(p)
        IN  /\ BatchPaths(last_batch) = {p}
            /\ \A i \in 1 .. Len(gen_files) :
                  gen_files[i].path < p => IsEmpty(gen_files[i])
            /\ Len(jobs) <= wave_size
            /\ \A k \in 1 .. Len(mine) : mine[k].index = FirstQueued + k - 1
            /\ jobs = SubSeq(mine, Len(mine) - Len(jobs) + 1, Len(mine))

\* C13 witness: a Critical batch of two segments taken from the second file,
\* the first file having no unclaimed segment.
C13_Witness ==
    /\ last_batch.result = "Some"
    /\ last_batch.health = "Critical"
    /\ Len(last_batch.jobs) = 2
    /\ last_batch.jobs[1].path = 1

\* C14: the number of distinct files a batch draws jobs from is at most 2
\* when the health read by next() is Poor and at most 4 when it is Good.
C14_JobParallelismBounded ==
    last_batch.result = "Some" =>
        /\ last_batch.health = "Poor" => Cardinality(BatchPaths(last_batch)) <= 2
        /\ last_batch.health = "Good" => Cardinality(BatchPaths(last_batch)) <= 4

\* C8: the batch iterator returns None only when all tasks are consumed, that
\* is when every file queue is empty, for every max_workers >= 1 and every
\* sequence of health readings.
C8_NoneOnlyWhenQueuesEmpty ==
    last_batch.result = "None" => \A i \in 1 .. Len(gen_files) : IsEmpty(gen_files[i])

\* The jobs queued for the file at position i of the generator.
QueuedJobs(i) ==
    {Job(gen_files[i].path, gen_files[i].start_index + k) :
         k \in 0 .. gen_files[i].total - 1}

\* The jobs yielded so far for path p, in the order they were yielded.
RECURSIVE YieldedFor(_, _)
YieldedFor(js, p) ==
    IF js = <<>> THEN <<>>
    ELSE (IF Head(js).path = p THEN <<Head(js)>> ELSE <<>>) \o YieldedFor(Tail(js), p)

\* No job is yielded twice, and the jobs of one volume are yielded in
\* ascending segment order.
YieldedOnceInOrder ==
    /\ \A a, b \in 1 .. Len(yielded) : a # b => yielded[a] # yielded[b]
    /\ \A i \in 1 .. Len(gen_files) :
           LET mine == YieldedFor(yielded, gen_files[i].path) IN
           \A a, b \in 1 .. Len(mine) : a < b => mine[a].index < mine[b].index

\* C36: over the whole sequence of batches, for every sequence of health
\* readings, every queued job is yielded in exactly one batch, and the jobs
\* of one volume are yielded in ascending segment order.
C36_EveryJobYieldedOnce ==
    /\ YieldedOnceInOrder
    /\ last_batch.result = "None" =>
           \A i \in 1 .. Len(gen_files) :
               \A j \in QueuedJobs(i) : \E k \in 1 .. Len(yielded) : yielded[k] = j

\* The same for a wave size of two and more.
EveryJobYieldedOnceFromWaveTwo == wave_size >= 2 => C36_EveryJobYieldedOnce

\* C15: a volume's job leaves segment 0 alone, it is neither downloaded nor
\* written again, and takes every segment from 1 on once, in order: none
\* twice, and all of them by the time the job returns.
C15_JobSkipsSegmentZero ==
    \A k \in Jobs :
        LET log == job_log[k] IN
        /\ downloads[k][0] = Queued
        /\ \A i \in 1 .. Len(log) : log[i].seg >= 1
        /\ \A i, j \in 1 .. Len(log) : i < j => log[i].seg < log[j].seg
        /\ job_result[k] = "Ok" =>
              \A s \in Segs : s >= 1 => \E i \in 1 .. Len(log) : log[i].seg = s

(***************************************************************************)
(* Properties: scheduler/adaptive.rs, scheduler/writer.rs                  *)
(***************************************************************************)

\* C7: batches proceed in order: the batch iterator's next() is called only
\* after every job of the batches before it has finished, that is with no job
\* unsent, waiting in the channel or held by a worker.
C7_NextOnlyAfterBatchFinished == unfinished_at_next = 0

\* The segments of a file that the ordered writer has put into the file.
WrittenTo(p) == {writer[p].written[k] : k \in 1 .. Len(writer[p].written)}

\* C9: when the scheduler run has returned, the iterator being exhausted,
\* every segment that downloaded successfully has been written to its file.
C9_DownloadedSegmentsAreWritten ==
    (sched_pc = "returned" /\ last_batch.result = "None") =>
        \A d \in download_ok : d[2] \in WrittenTo(d[1])

(***************************************************************************)
(* Properties: nntp/client.rs, nntp/pool.rs                                *)
(***************************************************************************)

Returned(d) == task_pc[d] \in {"returned_ok", "returned_err"}

\* The tasks warm_pool has spawned.
Spawned == {t \in Warmers : t <= NDownloads + max_connections}

\* C17: a transport error is retried, it surfaces only once the retry window
\* is over, whereas no attempt follows an authentication failure.
C17_AuthFailureIsFatal ==
    \A d \in Downloads :
        /\ ~auth_retried[d]
        /\ (task_pc[d] = "returned_err" /\ last_error[d] = "transport") =>
              GiveUp(elapsed[d])

Idle == {slots[i] : i \in 1 .. Len(slots)}

\* C19: the pool never has more than max_connections connections, and every
\* connection is either idle in the pool, once, or held by exactly one task.
C19_PoolBoundedAndExclusive ==
    /\ Cardinality(open_conns) <= max_connections
    /\ \A i, j \in 1 .. Len(slots) : slots[i] = slots[j] => i = j
    /\ \A c \in open_conns :
          /\ Cardinality(Holders(c)) <= 1
          /\ c \in Idle <=> Holders(c) = {}

\* C19 witness: the one connection of a pool of size 1 is held by the second
\* download, after the first failed with it and gave it back, and the first
\* waits for it again.
C19_Witness ==
    /\ max_connections = 1
    /\ last_error[1] = "transport"
    /\ task_conn[2] = 1
    /\ waiters = <<1>>

\* C20: once every task spawned by warm_pool has finished successfully, the
\* pool holds max_connections open connections.
C20_WarmPoolOpensAll ==
    (Spawned # {} /\ \A t \in Spawned : task_pc[t] = "done" /\ last_error[t] = "none")
        => Cardinality(open_conns) = max_connections

\* C21: when a volume's hash16k is not in the manifest and nothing else is
\* wrong with the other volumes, create_download_tasks succeeds and returns a
\* task for exactly the volumes whose hash is in the manifest.
C21_UnresolvedVolumeIsSkipped ==
    (/\ tasks_result.by = "archive"
     /\ \E i \in Positions : Unresolved(i)
     /\ tasks_result.malformed \notin Resolved
     /\ \A i \in Resolved : from_filename(hash_to_real[first_segments[i]]) # NoRarExt)
        => /\ tasks_result.result = "Ok"
           /\ {tasks_result.tasks[k].segment : k \in 1 .. Len(tasks_result.tasks)}
                  = Resolved

\* The same statement for the earlier Par2Manifest::create_download_tasks.
ManifestSkipsUnresolved ==
    (/\ tasks_result.by = "manifest"
     /\ \A i \in Resolved : from_filename(hash_to_real[first_segments[i]]) # NoRarExt)
        => /\ tasks_result.result = "Ok"
           /\ {tasks_result.tasks[k].segment : k \in 1 .. Len(tasks_result.tasks)}
                  = Resolved

Lt(a, b) == cmp(a, b) = "Less"

\* The volume keys of the files the NZB names.
Keys == {from_filename(hash_to_real[h]) : h \in DOMAIN hash_to_real} \ {NoRarExt}

\* C22: the order of the volume keys is a strict total order with Main
\* least: Main < Part(p), Part(p) < Part(q) exactly when p < q, any two keys
\* are comparable, and the order is antisymmetric and transitive.
C22_VolumeOrderIsStrictTotal ==
    /\ \A a, b \in Keys :
           /\ (a = Main /\ b # Main) => (Lt(a, b) /\ ~Lt(b, a))
           /\ (a # Main /\ b # Main) => (Lt(a, b) <=> a.n < b.n)
           /\ (cmp(a, b) = "Equal") <=> (a = b)
           /\ (cmp(a, b) = "Greater") <=> Lt(b, a)
           /\ ~(Lt(a, b) /\ Lt(b, a))
           /\ Lt(a, b) \/ a = b \/ Lt(b, a)
    /\ \A a, b, c \in Keys : Lt(a, b) /\ Lt(b, c) => Lt(a, c)

\* Three tasks were sorted, the .rar volume and two numbered ones among them.
C22_Witness ==
    /\ tasks_result.result = "Ok"
    /\ Len(tasks_result.tasks) = 3
    /\ TaskKey(tasks_result.tasks[1]) = Main
    /\ Lt(TaskKey(tasks_result.tasks[2]), TaskKey(tasks_result.tasks[3]))
    /\ tasks_result.tasks[1].segment = 3

\* C23: whatever the order of the files in the NZB, the tasks come back in
\* ascending volume order: .rar first, then .r00, .r01, ... by number.
C23_TasksInVolumeOrder ==
    tasks_result.result = "Ok" =>
        \A k \in 1 .. Len(tasks_result.tasks) - 1 :
            LET a == tasks_result.tasks[k].path
                b == tasks_result.tasks[k + 1].path
            IN  /\ b.ext # "rar" \/ a.ext = "rar"
                /\ (a.ext = "r" /\ b.ext = "r") =>
                       a.digits[1] * 10 + a.digits[2] <= b.digits[1] * 10 + b.digits[2]

\* The NZB lists .r01, .r00, .rar in this order and the tasks come back
\* as .rar, .r00, .r01.
C23_Witness ==
    /\ tasks_result.by = "archive"
    /\ tasks_result.result = "Ok"
    /\ Len(tasks_result.tasks) = 3
    /\ tasks_result.tasks[1].segment = 3
    /\ tasks_result.tasks[2].segment = 2
    /\ tasks_result.tasks[3].segment = 1
    /\ tasks_result.tasks[1].path.ext = "rar"
    /\ tasks_result.tasks[2].path.digits = Format2(0)
    /\ tasks_result.tasks[3].path.digits = Format2(1)

Scanned == par2_result.result # "scanning"
BufferPositions == 1 .. Len(par2_buffer)
WellFormedAt(p) == parse_packet(par2_buffer, p) # NoPacket
WellFormedFileDescAt(p) == parse_packet(par2_buffer, p).kind = "FileDesc"
\* The cell starts with the magic and parse_packet rejects it: the declared
\* length is below 32 or runs past the buffer, or the body does not parse.
MalformedAt(q) == par2_buffer[q].magic /\ ~WellFormedAt(q)
\* p lies behind the start of a packet the scan accepted and within its
\* declared length.
InsidePacket(p) ==
    \E k \in 1 .. Len(packets) :
        /\ packets[k].at < p
        /\ p < packets[k].at + packets[k].length
InManifest(p) ==
    /\ \E k \in 1 .. Len(packets) : packets[k].at = p /\ packets[k].kind = "FileDesc"
    /\ par2_buffer[p].name \in DOMAIN par2_result.files

\* C24 as stated: the scan terminates, and every well-formed FileDesc packet
\* that starts behind a malformed packet is in the manifest.
C24_MalformedHidesNothing ==
    /\ <>Scanned
    /\ [](Scanned =>
            \A q, p \in BufferPositions :
                (q < p /\ MalformedAt(q) /\ WellFormedFileDescAt(p)) => InManifest(p))

\* C24, amended: the scan terminates, the turn of the loop at a malformed
\* packet moves on by one cell only, and every well-formed FileDesc packet
\* that does not lie within the declared length of a packet the scan
\* accepted is in the manifest, whatever malformed packets precede it.
C24_OnlyAcceptedPacketsHide ==
    /\ <>Scanned
    /\ [][(scan_cursor' # scan_cursor /\ MalformedAt(scan_cursor))
              => (scan_cursor' = scan_cursor + 1 /\ packets' = packets)]_vars
    /\ [](Scanned =>
            \A p \in BufferPositions :
                (WellFormedFileDescAt(p) /\ ~InsidePacket(p)) => InManifest(p))

\* The scan is over; a packet with a declared length below the header size,
\* one running past the buffer and one with an unparseable body were met,
\* and the FileDesc packet behind them is in the manifest.
C24_Witness ==
    /\ Scanned
    /\ Len(par2_buffer) = 4
    /\ par2_buffer[1].magic /\ par2_buffer[1].pack_len < HEADER_SIZE
    /\ par2_buffer[2].magic /\ par2_buffer[2].pack_len = 2 /\ par2_buffer[2].body = "None"
    /\ WellFormedFileDescAt(3)
    /\ par2_buffer[4].magic /\ par2_buffer[4].pack_len > 1
    /\ InManifest(3)

\* C25: parse_buffer fails with NoFiles exactly when no FileDesc packet was
\* parsed, the empty buffer included; it does not fail for the lack of a
\* Main or IFSC packet.
C25_NoFilesIffNoFileDesc ==
    Scanned =>
        /\ par2_result.result \in {"NoFiles", "Ok"}
        /\ (par2_result.result = "NoFiles")
               <=> ~(\E k \in 1 .. Len(packets) : packets[k].kind = "FileDesc")
        /\ par2_buffer = <<>> => par2_result.result = "NoFiles"

\* A buffer with a FileDesc packet and no Main packet parsed to a manifest.
C25_Witness ==
    /\ par2_result.result = "Ok"
    /\ ~found_main(packets)
    /\ \A p \in BufferPositions : par2_buffer[p].body # "Main"
    /\ DOMAIN par2_result.files # {}

RarDone == rar_result # NotAnalysed
\* The buffer ends inside a header: behind its crc and before the end of
\* the fields the analyser reads from it.
HeaderStart(h) ==
    rar_shape.junk + 1 + (IF h = 2 THEN Len(HeaderCells(rar_shape.main)) ELSE 0)
HeaderFields(h) ==
    IF h = 2 /\ rar_shape.second.type = RAR_FILE_HEAD THEN HeaderBase + FileFields
    ELSE HeaderBase
HeaderPresent(h) ==
    IF h = 1 THEN rar_shape.main # NoHeader ELSE rar_shape.second # NoHeader
WellSized(h) == h = NoHeader \/ h.size = Len(HeaderCells(h))
TruncatedInHeader ==
    /\ rar_shape.signed
    /\ WellSized(rar_shape.main)
    /\ \E h \in 1 .. 2 :
           /\ HeaderPresent(h)
           /\ Len(rar_buffer) > HeaderStart(h)
           /\ Len(rar_buffer) < HeaderStart(h) + HeaderFields(h)

\* C26: the analyser either succeeds or fails with MalformedRar; without the
\* signature and with a buffer cut inside a header it fails with
\* MalformedRar; it returns nothing else and does not fail to return.
C26_OnlyMalformedRar ==
    RarDone =>
        /\ rar_result.result \in {"Ok", "MalformedRar"}
        /\ SignatureAt(rar_buffer) < 0 => rar_result.result = "MalformedRar"
        /\ TruncatedInHeader => rar_result.result = "MalformedRar"

\* The volume starts as a RAR volume does: signature, main header, file
\* header, each header as long as it says, and the buffer holds the file
\* header whole.
PayloadStart ==
    rar_shape.junk + 1 + Len(HeaderCells(rar_shape.main))
        + Len(HeaderCells(rar_shape.second))
WellFormedVolume ==
    /\ rar_shape.signed
    /\ rar_shape.main # NoHeader
    /\ WellSized(rar_shape.main)
    /\ rar_shape.second.type = RAR_FILE_HEAD
    /\ Len(rar_buffer) >= PayloadStart
WindowLen == Min(SearchWindow, rar_shape.second.pack_size)
\* The buffer holds the cells searched for the MKV signature.
WindowInBuffer == Len(rar_buffer) >= PayloadStart + WindowLen
MkvAt == {k \in 0 .. WindowLen - 1 : rar_buffer[PayloadStart + k + 1] = MKV_SIGNATURE}

\* C27: on the first volume, with the MKV signature k cells into the first
\* min(1024, pack_size) of the payload, the analyser returns
\* (payload_offset + k, pack_size - k), so that their sum is unchanged;
\* without the signature there, or on another volume, it returns the
\* position right behind the file header and pack_size.
C27_MkvOffsetShiftsPayload ==
    (RarDone /\ WellFormedVolume /\ (is_first => WindowInBuffer)) =>
        /\ rar_result.result = "Ok"
        /\ rar_result.offset + rar_result.length
               = PayloadStart + rar_shape.second.pack_size
        /\ IF is_first /\ MkvAt # {}
           THEN \E k \in MkvAt :
                    /\ \A j \in MkvAt : k <= j
                    /\ rar_result.offset = PayloadStart + k
                    /\ rar_result.length = rar_shape.second.pack_size - k
           ELSE /\ rar_result.offset = PayloadStart
                /\ rar_result.length = rar_shape.second.pack_size

\* The first volume, the MKV signature one cell into its payload.
C27_Witness ==
    /\ RarDone
    /\ WellFormedVolume
    /\ is_first
    /\ WindowInBuffer
    /\ MkvAt = {1}
    /\ rar_result.offset = PayloadStart + 1
    /\ rar_shape.junk > 0

\* The last request asked for a range starting at N, and N was at or behind
\* the end of the bytes available when it was answered.
StartBeyondAvailable ==
    /\ http_request.header.present
    /\ http_request.header.wellformed
    /\ http_request.header.start # Empty
    /\ http_response.total # Empty
    /\ http_request.header.start >= http_response.total

\* C28: a range request whose start is at or behind the end of the bytes
\* available, bytes=0- with nothing available included, is answered 503
\* with Retry-After and no data.
C28_UnavailableRangeIs503 ==
    StartBeyondAvailable =>
        /\ http_response.status = 503
        /\ http_response.retry_after
        /\ http_response.data_len = 0

\* C29: a stream request for an id that is not in the session map is
\* answered 404 and leaves the session map as it was.
C29_UnknownSessionIs404 ==
    [][(/\ <<http_request, http_response>>' # <<http_request, http_response>>
        /\ http_response'.via = "stream"
        /\ http_request'.id \notin DOMAIN sessions)
           => (http_response'.status = 404 /\ sessions' = sessions)]_vars

\* A request for an unknown id was answered 404 while another session is
\* ready to stream.
C29_Witness ==
    /\ http_response.via = "stream"
    /\ http_response.status = 404
    /\ http_request.id \notin DOMAIN sessions
    /\ \E i \in DOMAIN sessions : sessions[i].stream_ready /\ sessions[i].has_rar

\* ---------------------------------------------------------------------
\* yEnc round trip

Decoded == yenc_result.kind \in {"Ok", "YencDecoding"}

\* C30: for every byte string, decoding its yEnc encoding returns
\* exactly the byte string.
C30_YencRoundTrip == Decoded => yenc_result = YencOk(yenc_bytes)

\* What the decoder does keep: the round trip of a byte string whose
\* encoded lines are well-formed UTF-8.
YencRoundTripOnText ==
    (Decoded /\ from_utf8(yenc_article)) => yenc_result = YencOk(yenc_bytes)

\* An encoding that is not well-formed UTF-8 is never decoded.
YencRejectsNonText ==
    (Decoded /\ ~from_utf8(yenc_article)) => yenc_result = YencDecoding

\* The retrieval path returns the encoded lines, not the bytes.
ExtractRoundTrip ==
    yenc_result.kind = "extracted" => yenc_result.bytes = yenc_bytes

(***************************************************************************)
(* Properties: the ordered writer, file completion                         *)
(***************************************************************************)

\* C31: whatever the arrival order of the messages, the writer appends the
\* segments in ascending index order from 1 on without a gap, each index at
\* most once (position 1 of the file is segment 0, written before), and a
\* turn of its loop only appends.
C31_WriterAppendsInIndexOrder ==
    \A p \in DOMAIN writer :
        /\ \A k \in 1 .. Len(writer[p].written) : writer[p].written[k] = k - 1
        /\ writer[p].expected = Len(writer[p].written)

\* The task has ended with segments 1 to 3 appended, after a message that
\* was not the expected one when it arrived.
C31_Witness ==
    /\ 0 \in DOMAIN writer
    /\ writer[0].done
    /\ writer[0].written = <<0, 1, 2, 3>>
    /\ writer[0].pending # {}

\* The indexes of the queued segments of file p: segment 0 was downloaded
\* before the queues were built.
QueuedSegments(p) == FirstQueued .. FirstQueued + file_segments[p].total - 1

\* C32: the orchestrator is told that a file is complete only when every
\* segment of the file has been downloaded successfully.
C32_NotifiedOnlyWhenAllDownloaded ==
    \A p \in notified : \A i \in QueuedSegments(p) : <<p, i>> \in download_ok

\* Every segment of file p has been downloaded successfully.
AllDownloaded(p) == \A i \in QueuedSegments(p) : <<p, i>> \in download_ok

\* C37: every file whose segments all download successfully is reported
\* complete to the orchestrator, whatever its number of segments. Once
\* process_batches has returned, every worker has ended and no report can
\* follow, so the file has been reported by then.
C37_DownloadedFileIsReported ==
    sched_pc = "returned" =>
        \A p \in DOMAIN file_segments : AllDownloaded(p) => p \in notified

\* The same for the files of three segments and more.
C37_FromThreeSegmentsOn ==
    sched_pc = "returned" =>
        \A p \in DOMAIN file_segments :
            (AllDownloaded(p) /\ file_segments[p].total >= 2) => p \in notified

\* C38: at the moment the orchestrator is told that a file is complete,
\* the writer task of the file has appended every segment the workers have
\* handed to it, the last one included.
C38_WrittenBeforeNotified ==
    [][\A p \in notified' \ notified :
           /\ writer'[p].chan = <<>>
           /\ writer'[p].pending = {}
           /\ \A d \in download_ok' :
                  d[1] = p => \E k \in 1 .. Len(writer'[p].written) :
                                  writer'[p].written[k] = d[2]]_vars

(***************************************************************************)
(* Properties: stream/segment_tracker.rs                                   *)
(***************************************************************************)

\* C33: after any sequence of register_segment and mark_segment_complete
\* calls, every segment with a global index below available_segment has
\* been marked complete.
C33_AvailableBelowAreComplete ==
    \A g \in 0 .. tracker.available_segment - 1 : g \in marked

\* What the tracker does keep: every segment below available_segment is
\* segment 0 marked complete or a registered one.
AvailableBelowAreRegistered ==
    \A g \in 0 .. tracker.available_segment - 1 :
        g \in tracker.segments \/ g \in marked

(***************************************************************************)
(* Properties: session/mod.rs                                              *)
(***************************************************************************)

TasksIn(q) == {q[i] : i \in 1 .. Len(q)}

\* C34: get_next_download_task removes and returns a queued task of the
\* highest priority, returns None only when the queue is empty, and leaves
\* every other queued task in the queue.
C34_NextTaskHasHighestPriority ==
    [][IF download_queue = <<>>
       THEN next_task' = NoTask /\ download_queue' = <<>>
       ELSE /\ next_task' \in TasksIn(download_queue)
            /\ \A t \in TasksIn(download_queue) : t.priority <= next_task'.priority
            /\ TasksIn(download_queue') = TasksIn(download_queue) \ {next_task'}
            /\ Len(download_queue') = Len(download_queue) - 1]_vars

\* What the function does keep: a queued task is returned, None only for
\* the empty queue, and the others stay; the task is one of the lowest
\* priority.
NextTaskHasLowestPriority ==
    [][IF download_queue = <<>>
       THEN next_task' = NoTask /\ download_queue' = <<>>
       ELSE /\ next_task' \in TasksIn(download_queue)
            /\ \A t \in TasksIn(download_queue) : t.priority >= next_task'.priority
            /\ TasksIn(download_queue') = TasksIn(download_queue) \ {next_task'}
            /\ Len(download_queue') = Len(download_queue) - 1]_vars

(***************************************************************************)
(* Properties: http/range.rs                                               *)
(***************************************************************************)

RangeParsed == http_response.via = "range" /\ http_request.header.wellformed

\* C35: a range returned for content length L has start < L and, with an
\* end, start <= end < L; a bytes range with start >= L, end >= L or
\* start > end is rejected with 416; a suffix range -k has the start
\* max(L - k, 0) and an open end, and is returned when that start is below L.
C35_ReturnedRangeLiesInContent ==
    RangeParsed =>
        LET h == http_request.header
            r == http_response
            L == r.total
        IN  /\ r.range = "Some" =>
                  /\ r.start >= 0 /\ r.start < L
                  /\ r.end # Empty => (r.start <= r.end /\ r.end < L)
            /\ (h.start # Empty /\ (h.start >= L
                                      \/ (h.end # Empty /\ (h.end >= L \/ h.start > h.end)))) =>
                  (r.range = "Err" /\ r.status = RANGE_NOT_SATISFIABLE)
            /\ (h.start # Empty /\ r.range = "Some") =>
                  (r.start = h.start /\ r.end = h.end)
            /\ (h.start = Empty /\ h.end # Empty) =>
                  LET start == IF L - h.end > 0 THEN L - h.end ELSE 0
                  IN  IF start < L
                      THEN r.range = "Some" /\ r.start = start /\ r.end = Empty
                      ELSE r.range = "Err" /\ r.status = RANGE_NOT_SATISFIABLE

\* A suffix range longer than the content was parsed: it starts at 0.
C35_Witness ==
    /\ RangeParsed
    /\ http_request.header.start = Empty
    /\ http_request.header.end > http_response.total
    /\ http_response.range = "Some"
    /\ http_response.start = 0
    /\ http_response.end = Empty

(***************************************************************************)
(* Properties: overlapping calls of mark_file_complete                     *)
(***************************************************************************)

AllReturned == \A f \in DOMAIN mark_calls : mark_calls[f].pc = "returned"

\* C39: under any interleaving of mark_file_complete calls, available_bytes
\* and the stored layout never regress, and once the calls have returned
\* get_available_bytes matches the stored layout, which is that of the
\* complete prefix.
C39_AvailableNeverRegresses ==
    /\ [][/\ available_bytes' >= available_bytes
          /\ Len(layout') >= Len(layout)]_vars
    /\ [](AllReturned =>
            /\ Len(layout) = LongestPrefix(OrchDone)
            /\ GetAvailableBytes = PayloadBefore(Len(layout)))

(***************************************************************************)
(* Properties: termination of the RAR header walk                          *)
(***************************************************************************)

\* C40: the header walk of analyse_rar_buffer terminates on every buffer:
\* no turn of the loop starts at a position an earlier turn started at.
C40_HeaderWalkTerminates == rar_result.result # "hang"

====
